---- MODULE Spec2Model ----
(***************************************************************************)
(* A model of the parsing core of scholaretl: the abstract/paragraph       *)
(* reconciliation of utils.py, the UID hashing and the TEI sentence        *)
(* stitching of article_parser.py, and the record assembly of article.py.  *)
(*                                                                         *)
(* A Python str is a sequence of one-character strings (<<"H", "i">>), so  *)
(* that strip, startswith, endswith and concatenation are computed; the    *)
(* empty str is <<>>.  A Python list or tuple is a sequence.               *)
(***************************************************************************)
EXTENDS Integers, Sequences, FiniteSets, TLC

VARIABLES
    \* ---- utils.adjust_abstract_and_section_paragraphs, called by a caller
    in_abstract,            \* the abstract first handed to the function
    in_section_paragraphs,  \* the section_paragraphs first handed to it
    abstract,               \* the caller's current abstract
    section_paragraphs,     \* the caller's current section_paragraphs
    first_abstract,         \* what the first call returned (abstract)
    first_section_paragraphs, \* what the first call returned (sections)
    n_adjust,               \* how many times the function was applied
    \* ---- TEIXMLParser._build_texts, a generator run over `elements`
    elements,               \* the children handed to _build_texts
    bt_i,                   \* how many children the for loop has consumed
    text,                   \* the local buffer `text`
    texts,                  \* the strings yielded so far, in order
    bt_pc,                  \* "loop", "done" (generator exhausted), "raised"
    tei_returned,           \* what abstract and paragraphs, which consume the
                            \* generator over the children of a div, returned
    \* ---- ArticleParser.get_uid_from_identifiers, called by a caller
    identifiers,            \* the tuple of identifiers the caller holds
    uid_calls,              \* the calls made so far: arguments and outcome
    \* ---- an ArticleParser instance, its uid property and Article.parse
    parser,                 \* the parser: its variant and parsed document
    uid_read,               \* what reading parser.uid gave ("unread" before)
    article,                \* what Article.parse(parser) gave ("unparsed" before)
    \* ---- JATSXMLParser._element_to_str, called by a caller
    element,                \* the node handed to it (an element tree, or None)
    element_str,            \* what the call returned ("uncalled" before)
    \* ---- JATSXMLParser.paragraphs, read by a caller
    body,                   \* the <body> of the document (an element tree)
    jats_paragraphs,        \* what reading paragraphs gave ("unread" before)
    \* ---- a PDFParser and its paragraphs, read by a caller
    pdf_text,               \* self.pdf_text
    chunk_size,             \* self.chunk_size
    pdf_paragraphs,         \* what reading paragraphs gave ("unread" before)
    pdf_article,            \* what Article.parse gave ("unparsed" before)
    \* ---- an XOCSXMLParser: its construction and its properties, read
    xocs_data,              \* the parsed document handed to the constructor
    xocs,                   \* the parser: content, type and namespace
    xocs_paragraphs,        \* what reading paragraphs gave ("unread" before)
    xocs_article_type,      \* what reading article_type gave
    \* ---- JATSXMLParser.from_zip, called by a caller
    myzip,                  \* the members of the archive at `path`, in order
    zip_opened,             \* the names of the members opened by the call
    zip_parser,             \* what the call gave ("uncalled" before)
    \* ---- the endpoint /parse/grobidpdf, posted to by a client
    grobid_request,         \* the request: settings, form data, server and its document
    grobid_response,        \* the response to the client (none before)
    \* ---- the property title of a parser, read by a caller
    title_parser,           \* a parser: its dialect and the title element of its document
    title_read,             \* what reading title gave ("unread" before)
    \* ---- TEIXMLParser.tei_ids
    tei_idnos,              \* the idno elements of the document, in order
    tei_threads,            \* the threads that read the instance
    tei_ids,                \* self._tei_ids: NoDict or a reference into tei_dicts
    tei_dicts,              \* the dict objects created so far
    tei_pc,                 \* per thread, its position in the read
    tei_op,                 \* per thread, the property it reads
    tei_calls,              \* per thread, the evaluations of tei_ids still to make
    tei_i,                  \* per thread, the idno elements its loop has stored
    tei_reads,              \* the reads started so far
    tei_handed,             \* the maps returned by tei_ids, in order
    \* ---- TEIXMLParser.abstract
    tei_abstract,           \* the children of the abstract element of a TEI document
    tei_abstract_read       \* what reading abstract gave ("unread" before)

adjVars == <<in_abstract, in_section_paragraphs, abstract, section_paragraphs,
             first_abstract, first_section_paragraphs, n_adjust>>

btVars == <<elements, bt_i, text, texts, bt_pc, tei_returned>>

uidVars == <<identifiers, uid_calls>>

parseVars == <<parser, uid_read, article>>

etsVars == <<element, element_str>>

jpVars == <<body, jats_paragraphs>>

pdfVars == <<pdf_text, chunk_size, pdf_paragraphs, pdf_article>>

xocsVars == <<xocs_data, xocs, xocs_paragraphs, xocs_article_type>>

zipVars == <<myzip, zip_opened, zip_parser>>

grobidVars == <<grobid_request, grobid_response>>

titleVars == <<title_parser, title_read>>

teiIdsVars == <<tei_idnos, tei_threads, tei_ids, tei_dicts, tei_pc, tei_op, tei_calls, tei_i, tei_reads, tei_handed>>

teiAbsVars == <<tei_abstract, tei_abstract_read>>

vars == <<adjVars, btVars, uidVars, parseVars, etsVars, jpVars, pdfVars,
    xocsVars, zipVars, grobidVars, titleVars, teiIdsVars, teiAbsVars>>

\* What an operation of one component leaves alone: the other components.
notAdj == <<btVars, uidVars, parseVars, etsVars, jpVars, pdfVars, xocsVars,
    zipVars, grobidVars, titleVars, teiIdsVars, teiAbsVars>>
notBt == <<adjVars, uidVars, parseVars, etsVars, jpVars, pdfVars, xocsVars,
    zipVars, grobidVars, titleVars, teiIdsVars, teiAbsVars>>
notUid == <<adjVars, btVars, parseVars, etsVars, jpVars, pdfVars, xocsVars,
    zipVars, grobidVars, titleVars, teiIdsVars, teiAbsVars>>
notParse == <<adjVars, btVars, uidVars, etsVars, jpVars, pdfVars, xocsVars,
    zipVars, grobidVars, titleVars, teiIdsVars, teiAbsVars>>
notEts == <<adjVars, btVars, uidVars, parseVars, jpVars, pdfVars, xocsVars,
    zipVars, grobidVars, titleVars, teiIdsVars, teiAbsVars>>
notJp == <<adjVars, btVars, uidVars, parseVars, etsVars, pdfVars, xocsVars,
    zipVars, grobidVars, titleVars, teiIdsVars, teiAbsVars>>
notPdf == <<adjVars, btVars, uidVars, parseVars, etsVars, jpVars, xocsVars,
    zipVars, grobidVars, titleVars, teiIdsVars, teiAbsVars>>
notXocs == <<adjVars, btVars, uidVars, parseVars, etsVars, jpVars, pdfVars,
    zipVars, grobidVars, titleVars, teiIdsVars, teiAbsVars>>
notZip == <<adjVars, btVars, uidVars, parseVars, etsVars, jpVars, pdfVars,
    xocsVars, grobidVars, titleVars, teiIdsVars, teiAbsVars>>
notGrobid == <<adjVars, btVars, uidVars, parseVars, etsVars, jpVars, pdfVars,
    xocsVars, zipVars, titleVars, teiIdsVars, teiAbsVars>>
notTitle == <<adjVars, btVars, uidVars, parseVars, etsVars, jpVars, pdfVars,
    xocsVars, zipVars, grobidVars, teiIdsVars, teiAbsVars>>
notTeiIds == <<adjVars, btVars, uidVars, parseVars, etsVars, jpVars, pdfVars,
    xocsVars, zipVars, grobidVars, titleVars, teiAbsVars>>
notTeiAbs == <<adjVars, btVars, uidVars, parseVars, etsVars, jpVars, pdfVars,
    xocsVars, zipVars, grobidVars, titleVars, teiIdsVars>>

----------------------------------------------------------------------------
(* Bounds of the model *)

MaxAbstract == 2
MaxParagraphs == 3
MaxChildren == 3
MaxIdentifiers == 3

----------------------------------------------------------------------------
(* Generic helpers *)

\* All sequences over S of length at most n.
SeqsUpTo(S, n) == UNION {[1..k -> S] : k \in 0..n}

\* str.strip(): leading and trailing whitespace removed.
IsSpace(c) == c \in {" ", "\n"}

RECURSIVE LStrip(_)
LStrip(s) ==
    IF s = <<>> THEN s
    ELSE IF IsSpace(Head(s)) THEN LStrip(Tail(s)) ELSE s

RECURSIVE RStrip(_)
RStrip(s) ==
    IF s = <<>> THEN s
    ELSE IF IsSpace(s[Len(s)]) THEN RStrip(SubSeq(s, 1, Len(s) - 1)) ELSE s

Strip(s) == RStrip(LStrip(s))

\* s.endswith(suffix)
EndsWith(s, suffix) ==
    /\ Len(s) >= Len(suffix)
    /\ SubSeq(s, Len(s) - Len(suffix) + 1, Len(s)) = suffix

\* `needle in s` for strings: needle occurs as a substring.
Contains(s, needle) ==
    \E k \in 0..(Len(s) - Len(needle)) :
        SubSeq(s, k + 1, k + Len(needle)) = needle

----------------------------------------------------------------------------
(* Python values and their repr, as str(tuple) and str(list) print them *)

\* An Optional value: None, a str, or an int written with its digits.
PyNone == [t |-> "None", v |-> <<>>]
PyStr(s) == [t |-> "str", v |-> s]
PyInt(digits) == [t |-> "int", v |-> digits]

\* What a call gives: a returned value or a raised exception.
Return(value) == [exc |-> "none", value |-> value]
Raise(exc) == [exc |-> exc, value |-> PyNone]

\* sep.join(items)
RECURSIVE Join(_, _)
Join(items, sep) ==
    IF items = <<>> THEN <<>>
    ELSE IF Len(items) = 1 THEN items[1]
    ELSE items[1] \o sep \o Join(Tail(items), sep)

\* The body of repr(str): backslash, newline and the quote in use escaped.
RECURSIVE EscapeStr(_, _)
EscapeStr(s, quote) ==
    IF s = <<>> THEN <<>>
    ELSE (IF Head(s) = "\\" THEN <<"\\", "\\">>
          ELSE IF Head(s) = quote THEN <<"\\", quote>>
          ELSE IF Head(s) = "\n" THEN <<"\\", "n">>
          ELSE <<Head(s)>>)
         \o EscapeStr(Tail(s), quote)

\* repr(str): single quotes, double quotes when the string holds a single
\* quote and no double quote.
ReprStr(s) ==
    LET quote == IF Contains(s, <<"'">>) /\ ~Contains(s, <<"\"">>)
                 THEN "\"" ELSE "'"
    IN  <<quote>> \o EscapeStr(s, quote) \o <<quote>>

\* repr of an Optional value.
Repr(x) ==
    IF x.t = "None" THEN <<"N", "o", "n", "e">>
    ELSE IF x.t = "str" THEN ReprStr(x.v)
    ELSE x.v

\* repr(tuple) given the repr of its items: "(a, b)", "(a,)", "()".
ReprTuple(items) ==
    <<"(">> \o Join(items, <<",", " ">>)
    \o (IF Len(items) = 1 THEN <<",">> ELSE <<>>) \o <<")">>

\* repr(list) given the repr of its items: "[a, b]".
ReprList(items) == <<"[">> \o Join(items, <<",", " ">>) \o <<"]">>

----------------------------------------------------------------------------
(* hashlib.md5 *)

\* The printable ASCII characters, in code order from 32 (space) to 126;
\* "GRAVE" stands for the grave accent (code 96).
AsciiPrintable ==
    <<" ", "!", "\"", "#", "$", "%", "&", "'", "(", ")", "*", "+", ",", "-",
      ".", "/", "0", "1", "2", "3", "4", "5", "6", "7", "8", "9", ":", ";",
      "<", "=", ">", "?", "@", "A", "B", "C", "D", "E", "F", "G", "H", "I",
      "J", "K", "L", "M", "N", "O", "P", "Q", "R", "S", "T", "U", "V", "W",
      "X", "Y", "Z", "[", "\\", "]", "^", "_", "GRAVE", "a", "b", "c", "d", "e",
      "f", "g", "h", "i", "j", "k", "l", "m", "n", "o", "p", "q", "r", "s",
      "t", "u", "v", "w", "x", "y", "z", "{", "|", "}", "~">>

\* ord(c) for the printable ASCII characters.
Ord == [c \in {AsciiPrintable[i] : i \in 1..95} |->
            31 + (CHOOSE i \in 1..95 : AsciiPrintable[i] = c)]

\* str.encode(): the UTF-8 bytes of a string.  A printable ASCII character
\* is one byte, as is the newline; U+00C9 is the two bytes C3 89.
RECURSIVE Encode(_)
Encode(s) ==
    IF s = <<>> THEN <<>>
    ELSE (IF Head(s) = "U+00C9" THEN <<195, 137>>
          ELSE IF Head(s) = "\n" THEN <<10>>
          ELSE <<Ord[Head(s)]>>)
         \o Encode(Tail(s))

\* A 32-bit word is the pair <<high 16 bits, low 16 bits>>.
W(hi, lo) == <<hi, lo>>

\* Bitwise and of two 4-bit numbers, tabulated.
And4 == [a \in 0..15 |-> [b \in 0..15 |->
            ((a % 2) * (b % 2))
          + 2 * (((a \div 2) % 2) * ((b \div 2) % 2))
          + 4 * (((a \div 4) % 2) * ((b \div 4) % 2))
          + 8 * (((a \div 8) % 2) * ((b \div 8) % 2))]]

And16(a, b) ==
      And4[a % 16][b % 16]
    + 16 * And4[(a \div 16) % 16][(b \div 16) % 16]
    + 256 * And4[(a \div 256) % 16][(b \div 256) % 16]
    + 4096 * And4[a \div 4096][b \div 4096]

Xor16(a, b) == a + b - 2 * And16(a, b)
Or16(a, b) == a + b - And16(a, b)
Not16(a) == 65535 - a

WAnd(x, y) == <<And16(x[1], y[1]), And16(x[2], y[2])>>
WOr(x, y) == <<Or16(x[1], y[1]), Or16(x[2], y[2])>>
WXor(x, y) == <<Xor16(x[1], y[1]), Xor16(x[2], y[2])>>
WNot(x) == <<Not16(x[1]), Not16(x[2])>>

\* Addition modulo 2^32.
WAdd(x, y) ==
    LET lo == x[2] + y[2]
    IN  <<(x[1] + y[1] + (lo \div 65536)) % 65536, lo % 65536>>

Pow2 == <<2, 4, 8, 16, 32, 64, 128, 256, 512, 1024, 2048, 4096, 8192, 16384,
          32768, 65536>>

\* Rotation to the left by s bits, 0 < s < 32.
RotL16(x, s) ==
    \* 0 < s < 16: the halves exchange their top s bits.
    LET p == Pow2[s]
        q == Pow2[16 - s]
    IN  <<(x[1] % q) * p + (x[2] \div q), (x[2] % q) * p + (x[1] \div q)>>
LeftRotate(x, s) ==
    IF s = 16 THEN <<x[2], x[1]>>
    ELSE IF s < 16 THEN RotL16(x, s)
    ELSE RotL16(<<x[2], x[1]>>, s - 16)

\* The per-round shift amounts and the constants floor(2^32 * abs(sin(i + 1))).
MD5Shift ==
    <<7, 12, 17, 22, 7, 12, 17, 22, 7, 12, 17, 22, 7, 12, 17, 22,
      5, 9, 14, 20, 5, 9, 14, 20, 5, 9, 14, 20, 5, 9, 14, 20,
      4, 11, 16, 23, 4, 11, 16, 23, 4, 11, 16, 23, 4, 11, 16, 23,
      6, 10, 15, 21, 6, 10, 15, 21, 6, 10, 15, 21, 6, 10, 15, 21>>

MD5K ==
    <<
     <<55146, 42104>>, <<59591, 46934>>, <<9248, 28891>>, <<49597, 52974>>,
     <<62844, 4015>>, <<18311, 50730>>, <<43056, 17939>>, <<64838, 38145>>,
     <<27008, 39128>>, <<35652, 63407>>, <<65535, 23473>>, <<35164, 55230>>,
     <<27536, 4386>>, <<64920, 29075>>, <<42617, 17294>>, <<18868, 2081>>,
     <<63006, 9570>>, <<49216, 45888>>, <<9822, 23121>>, <<59830, 51114>>,
     <<54831, 4189>>, <<580, 5203>>, <<55457, 59009>>, <<59347, 64456>>,
     <<8673, 52710>>, <<49975, 2006>>, <<62677, 3463>>, <<17754, 5357>>,
     <<43491, 59653>>, <<64751, 41976>>, <<26479, 729>>, <<36138, 19594>>,
     <<65530, 14658>>, <<34673, 63105>>, <<28061, 24866>>, <<64997, 14348>>,
     <<42174, 59972>>, <<19422, 53161>>, <<63163, 19296>>, <<48831, 48240>>,
     <<10395, 32454>>, <<60065, 10234>>, <<54511, 12421>>, <<1160, 7429>>,
     <<55764, 53305>>, <<59099, 39397>>, <<8098, 31992>>, <<50348, 22117>>,
     <<62505, 8772>>, <<17194, 65431>>, <<43924, 9127>>, <<64659, 41017>>,
     <<25947, 22979>>, <<36620, 52370>>, <<65519, 62589>>, <<34180, 24017>>,
     <<28584, 32335>>, <<65068, 59104>>, <<41729, 17172>>, <<19976, 4513>>,
     <<63315, 32386>>, <<48442, 62005>>, <<10967, 53947>>, <<60294, 54161>> >>

\* The padded message: 0x80, zeros up to 56 modulo 64, then the length in
\* bits as 8 little-endian bytes (messages here are shorter than 2^13 bytes).
MD5Pad(bytes) ==
    LET n == Len(bytes)
        zeros == (55 - n) % 64
        bits == 8 * n
    IN  bytes \o <<128>> \o [i \in 1..zeros |-> 0]
        \o <<bits % 256, (bits \div 256) % 256, 0, 0, 0, 0, 0, 0>>

\* The 16 little-endian words of the 64-byte chunk that starts after off.
MD5Words(padded, off) ==
    [j \in 1..16 |->
        LET b == off + 4 * (j - 1)
        IN  <<padded[b + 3] + 256 * padded[b + 4],
              padded[b + 1] + 256 * padded[b + 2]>>]

\* One of the 64 operations on the state <<A, B, C, D>>.
MD5Op(i, st, M) ==
    LET A == st[1]
        B == st[2]
        C == st[3]
        D == st[4]
        F == IF i < 16 THEN WOr(WAnd(B, C), WAnd(WNot(B), D))
             ELSE IF i < 32 THEN WOr(WAnd(D, B), WAnd(WNot(D), C))
             ELSE IF i < 48 THEN WXor(WXor(B, C), D)
             ELSE WXor(C, WOr(B, WNot(D)))
        g == IF i < 16 THEN i
             ELSE IF i < 32 THEN (5 * i + 1) % 16
             ELSE IF i < 48 THEN (3 * i + 5) % 16
             ELSE (7 * i) % 16
        F2 == WAdd(WAdd(WAdd(F, A), MD5K[i + 1]), M[g + 1])
    IN  <<D, WAdd(B, LeftRotate(F2, MD5Shift[i + 1])), B, C>>

\* The 64 operations in turn (the test on st has TLC evaluate the state of
\* round i before it goes on to round i + 1).
RECURSIVE MD5Rounds(_, _, _)
MD5Rounds(i, st, M) ==
    IF i = 64 \/ st = <<>> THEN st
    ELSE MD5Rounds(i + 1, MD5Op(i, st, M), M)

\* The state of a chunk added to the chaining value, word by word.
MD5AddState(h, st) ==
    <<WAdd(h[1], st[1]), WAdd(h[2], st[2]), WAdd(h[3], st[3]),
      WAdd(h[4], st[4])>>

\* All chunks from offset off on, starting from the chaining value h.
RECURSIVE MD5Chunks(_, _, _)
MD5Chunks(padded, off, h) ==
    IF off >= Len(padded) THEN h
    ELSE MD5Chunks(padded, off + 64,
                   MD5AddState(h, MD5Rounds(0, h, MD5Words(padded, off))))

HexDigits == <<"0", "1", "2", "3", "4", "5", "6", "7", "8", "9",
               "a", "b", "c", "d", "e", "f">>

HexByte(b) == <<HexDigits[(b \div 16) + 1], HexDigits[(b % 16) + 1]>>

\* The 8 hex digits of a word, its bytes in little-endian order.
HexWord(x) ==
    HexByte(x[2] % 256) \o HexByte(x[2] \div 256)
    \o HexByte(x[1] % 256) \o HexByte(x[1] \div 256)

HexState(h) ==
    HexWord(h[1]) \o HexWord(h[2]) \o HexWord(h[3]) \o HexWord(h[4])

\* hashlib.md5(data).hexdigest(): 32 hex digits.
MD5Hex(bytes) ==
    HexState(MD5Chunks(MD5Pad(bytes), 0,
                       <<W(26437, 8961), W(61389, 43913),
                         W(39098, 56574), W(4146, 21622)>>))

----------------------------------------------------------------------------
(* utils.py: adjust_abstract_and_section_paragraphs *)

\* Section titles and paragraph texts the inputs are drawn from.
SectionTitles == {<<>>, <<"S">>}
ParagraphTexts == {<<>>, <<"a">>, <<"b">>}

\* `not abstract`: a list is falsy exactly when it has no element.
NotAbstractAnyText(abstract_) == \A i \in 1..Len(abstract_) : abstract_[i] = <<>>
NotAbstract(abstract_) == abstract_ = <<>>

\* next(i for i, (section, _) in enumerate(section_paragraphs) if section),
\* with the StopIteration fallback len(section_paragraphs).  The index is
\* 0-based as in the source.
IFirstOffByOne(sp) ==
    IF \E i \in 1..Len(sp) : sp[i][1] # <<>>
    THEN CHOOSE i \in 1..Len(sp) :
            /\ sp[i][1] # <<>>
            /\ \A j \in 1..(i - 1) : sp[j][1] = <<>>
    ELSE Len(sp)
IFirst(sp) ==
    IF \E i \in 1..Len(sp) : sp[i][1] # <<>>
    THEN (CHOOSE i \in 1..Len(sp) :
            /\ sp[i][1] # <<>>
            /\ \A j \in 1..(i - 1) : sp[j][1] = <<>>) - 1
    ELSE Len(sp)

\* The function: returns <<abstract, section_paragraphs>>.
AdjustAbstractAndSectionParagraphs(abstract_, sp) ==
    IF NotAbstract(abstract_)
    THEN LET i_first == IFirst(sp)
             new_section_paragraphs == SubSeq(sp, i_first + 1, Len(sp))
             new_abstract_paragraphs == [i \in 1..i_first |-> sp[i][2]]
         IN  <<new_abstract_paragraphs, new_section_paragraphs>>
    ELSE <<abstract_, sp>>

AdjInit ==
    /\ in_abstract \in SeqsUpTo(ParagraphTexts, MaxAbstract)
    /\ in_section_paragraphs \in
          SeqsUpTo(SectionTitles \X ParagraphTexts, MaxParagraphs)
    /\ abstract = in_abstract
    /\ section_paragraphs = in_section_paragraphs
    /\ first_abstract = <<>>
    /\ first_section_paragraphs = <<>>
    /\ n_adjust = 0

AdjIdle ==
    /\ in_abstract = <<>>
    /\ in_section_paragraphs = <<>>
    /\ abstract = <<>>
    /\ section_paragraphs = <<>>
    /\ first_abstract = <<>>
    /\ first_section_paragraphs = <<>>
    /\ n_adjust = 0

\* The caller applies the function to what it holds (Article.parse does so
\* once; a second application is the function applied to its own output).
Adjust ==
    /\ n_adjust < 2
    /\ LET r == AdjustAbstractAndSectionParagraphs(abstract, section_paragraphs)
       IN  /\ abstract' = r[1]
           /\ section_paragraphs' = r[2]
           /\ first_abstract' = IF n_adjust = 0 THEN r[1] ELSE first_abstract
           /\ first_section_paragraphs' =
                 IF n_adjust = 0 THEN r[2] ELSE first_section_paragraphs
    /\ n_adjust' = n_adjust + 1
    /\ UNCHANGED <<in_abstract, in_section_paragraphs, notAdj>>

AdjNext == Adjust

----------------------------------------------------------------------------
(* article_parser.py: TEIXMLParser._build_texts *)

\* string.ascii_uppercase
AsciiUppercase ==
    {"A", "B", "C", "D", "E", "F", "G", "H", "I", "J", "K", "L", "M",
     "N", "O", "P", "Q", "R", "S", "T", "U", "V", "W", "X", "Y", "Z"}

\* The one-character string U+00C9 (LATIN CAPITAL LETTER E WITH ACUTE): an
\* uppercase letter that is not in string.ascii_uppercase.
EAcute == "U+00C9"

\* Uppercase letters in the sense of str.isupper() among the characters used.
UnicodeUppercase == AsciiUppercase \cup {EAcute}

\* The flattened texts (_element_to_str) of the <p> children.
T_Hello == <<"H", "e", "l", "l", "o">>
T_HelloDot == <<"H", "e", "l", "l", "o", ".">>
T_thereDot == <<"t", "h", "e", "r", "e", ".">>
T_ThereDot == <<"T", "h", "e", "r", "e", ".">>
T_As == <<"A", "s", " ">>
T_shows == <<"s", "h", "o", "w", "s", ".", ".", ".">>
T_Ete == <<EAcute, "t", "e">>
T_Blank == <<" ">>
T_Ref == <<" ", "[", "1", "]">>

ParagraphElementTexts ==
    {<<>>, T_Blank, T_Hello, T_HelloDot, T_thereDot, T_ThereDot, T_As,
     T_shows, T_Ete}

\* A child element: its tag (without the namespace prefix) and the text
\* "".join(element.itertext()).
Element(tag, txt) == [tag |-> tag, text |-> txt]

ChildElements ==
    {Element("p", t) : t \in ParagraphElementTexts}
    \cup {Element("formula", <<"x">>), Element("note", <<"n">>),
          Element("ref", <<>>), Element("ref", T_Ref),
          Element("figure", <<"F", ".">>), Element("hahaha", <<"H">>)}

\* if_non_empty(text_): the strings it yields (none or one).
IfNonEmptyAlwaysPeriod(text_) ==
    IF text_ # <<>> THEN << text_ \o <<".">> >> ELSE <<>>
IfNonEmpty(text_) ==
    IF text_ # <<>>
    THEN IF ~EndsWith(text_, <<".">>)
         THEN << text_ \o <<".">> >>
         ELSE << text_ >>
    ELSE <<>>

\* p_text[0] in string.ascii_uppercase
StartsSentenceByLastPeriod(p_text) == p_text[Len(p_text)] = "."
StartsSentence(p_text) == p_text[1] \in AsciiUppercase

\* The flattened text of the <head> of the div the children are taken from.
DivHead == <<"S">>

\* What the two properties have returned: nothing while the generator runs.
Running == [abstract |-> Raise("running"), paragraphs |-> Raise("running")]

\* An exception of the generator leaves abstract_list.extend(...) and the
\* for loop of paragraphs: neither property returns its list.
Propagated(exc) == [abstract |-> Raise(exc), paragraphs |-> Raise(exc)]

\* The generator is exhausted: abstract returns the texts, paragraphs the
\* pairs (section_title, text) (no figure follows the div).
Returned(texts_) ==
    [abstract |-> [exc |-> "none", value |-> texts_],
     paragraphs |->
        [exc |-> "none",
         value |-> [i \in 1..Len(texts_) |-> <<DivHead, texts_[i]>>]]]

BtInit ==
    /\ elements \in SeqsUpTo(ChildElements, MaxChildren)
    /\ bt_i = 0
    /\ text = <<>>
    /\ texts = <<>>
    /\ bt_pc = "loop"
    /\ tei_returned = Running

BtIdle ==
    /\ elements = <<>>
    /\ bt_i = 0
    /\ text = <<>>
    /\ texts = <<>>
    /\ bt_pc = "idle"
    /\ tei_returned = Running

\* The child the for loop takes next.
HasChild == bt_pc = "loop" /\ bt_i < Len(elements)
Child == elements[bt_i + 1]

\* child.tag == prefix + "p"
StepParagraph ==
    /\ HasChild
    /\ Child.tag = "p"
    /\ LET p_text == Strip(Child.text)
       IN  IF p_text = <<>>
           THEN UNCHANGED <<text, texts>>
           ELSE IF StartsSentence(p_text)
                THEN /\ texts' = texts \o IfNonEmpty(text)
                     /\ text' = p_text
                ELSE /\ text' = text \o <<" ">> \o p_text
                     /\ UNCHANGED texts
    /\ bt_i' = bt_i + 1
    /\ UNCHANGED <<elements, bt_pc, tei_returned, notBt>>

\* child.tag == prefix + "formula"
StepFormula ==
    /\ HasChild
    /\ Child.tag = "formula"
    /\ text' = text \o <<" ", "F", "O", "R", "M", "U", "L", "A">>
    /\ bt_i' = bt_i + 1
    /\ UNCHANGED <<elements, texts, bt_pc, tei_returned, notBt>>

\* child.tag == prefix + "note"
StepNote ==
    /\ HasChild
    /\ Child.tag = "note"
    /\ bt_i' = bt_i + 1
    /\ UNCHANGED <<elements, text, texts, bt_pc, tei_returned, notBt>>

\* child.tag == prefix + "ref" or child.tag == prefix + "figure"
StepRefOrFigure ==
    /\ HasChild
    /\ Child.tag \in {"ref", "figure"}
    /\ LET ref_text == Strip(Child.text)
       IN  text' = text \o <<" ">> \o ref_text
    /\ bt_i' = bt_i + 1
    /\ UNCHANGED <<elements, texts, bt_pc, tei_returned, notBt>>

\* else: raise RuntimeError("Unexpected tag: ...")
StepUnexpectedTagSkipped ==
    /\ HasChild
    /\ Child.tag \notin {"p", "formula", "note", "ref", "figure"}
    /\ bt_i' = bt_i + 1
    /\ UNCHANGED <<elements, text, texts, bt_pc, tei_returned, notBt>>
StepUnexpectedTag ==
    /\ HasChild
    /\ Child.tag \notin {"p", "formula", "note", "ref", "figure"}
    /\ bt_pc' = "raised"
    /\ tei_returned' = Propagated("RuntimeError")
    /\ UNCHANGED <<elements, bt_i, text, texts, notBt>>

\* After the loop: yield from if_non_empty(text), and the generator ends.
YieldLast ==
    /\ bt_pc = "loop"
    /\ bt_i = Len(elements)
    /\ texts' = texts \o IfNonEmpty(text)
    /\ bt_pc' = "done"
    /\ tei_returned' = Returned(texts')
    /\ UNCHANGED <<elements, bt_i, text, notBt>>

BtNext ==
    \/ StepParagraph
    \/ StepFormula
    \/ StepNote
    \/ StepRefOrFigure
    \/ StepUnexpectedTag
    \/ YieldLast

----------------------------------------------------------------------------
(* article_parser.py: ArticleParser.get_uid_from_identifiers *)

\* The values an identifier takes: absent, two strings, and the int 0 of
\* the "none-and-zero" test.
IdentifierValues == {PyNone, PyStr(<<"a">>), PyStr(<<"b">>), PyInt(<<"0">>)}

\* all(x is None for x in identifiers)
AllFalsy(ids) ==
    \A i \in 1..Len(ids) :
        ids[i] = PyNone \/ ids[i].v = <<>> \/ ids[i] = PyInt(<<"0">>)
AllNone(ids) == \A i \in 1..Len(ids) : ids[i] = PyNone

\* str(identifiers)
StrOfPresentIdentifiers(ids) ==
    LET present == SelectSeq(ids, LAMBDA x : x # PyNone)
    IN  ReprTuple([i \in 1..Len(present) |-> Repr(present[i])])
StrOfIdentifiers(ids) == ReprTuple([i \in 1..Len(ids) |-> Repr(ids[i])])

\* The function: a 32-digit hex digest, or ValueError.
GetUidFromIdentifiers(ids) ==
    IF AllNone(ids)
    THEN Raise("ValueError")
    ELSE LET data == Encode(StrOfIdentifiers(ids))
             hashed == MD5Hex(data)
         IN  Return(PyStr(hashed))

\* The permutations of the positions 1..n, and a tuple permuted by one.
PositionPermutations(n) ==
    {f \in [1..n -> 1..n] : \A i, j \in 1..n : i # j => f[i] # f[j]}
Permuted(ids, f) == [i \in 1..Len(ids) |-> ids[f[i]]]
Identity(n) == [i \in 1..n |-> i]

UidInit ==
    /\ identifiers \in SeqsUpTo(IdentifierValues, MaxIdentifiers)
    /\ uid_calls = <<>>

UidIdle ==
    /\ identifiers = <<>>
    /\ uid_calls = <<>>

\* One call: its argument, the permutation of `identifiers` the argument is,
\* and the outcome.
Call(f) ==
    LET args == Permuted(identifiers, f)
    IN  [args |-> args, perm |-> f, result |-> GetUidFromIdentifiers(args)]

\* The caller calls the function on its tuple (twice at most).
CallGetUid ==
    /\ Len(uid_calls) < 2
    /\ uid_calls' = Append(uid_calls, Call(Identity(Len(identifiers))))
    /\ UNCHANGED <<identifiers, notUid>>

\* The caller then calls it on a permutation of its tuple.
CallGetUidPermuted ==
    /\ Len(uid_calls) = 2
    /\ \E f \in PositionPermutations(Len(identifiers)) :
          uid_calls' = Append(uid_calls, Call(f))
    /\ UNCHANGED <<identifiers, notUid>>

UidNext == CallGetUid \/ CallGetUidPermuted

----------------------------------------------------------------------------
(* article_parser.py: the parser variants, their identifiers and uid;
   article.py: Article.parse *)

\* An element of the document that may hold an identifier: missing, or
\* there with its text (None for an element without text).
Absent == [present |-> FALSE, text |-> PyNone]
Elem(text_) == [present |-> TRUE, text |-> text_]

\* Element.text of an element found or not: find(...) is None when missing.
TextOrNone(e) == IF e.present THEN e.text ELSE PyNone

S_1234 == <<"1", ".", "2", "3", "4">>

\* What title, authors, abstract and paragraphs read from a document.
Content(title, authors, abstract_, paragraphs) ==
    [title |-> title, authors |-> authors, abstract |-> abstract_,
     paragraphs |-> paragraphs]

\* "TITLE", [], ["ABS 1", "ABS 2"], []
AbstractOnly ==
    Content(<<"T", "I", "T", "L", "E">>, <<>>,
            <<<<"A", "B", "S", " ", "1">>, <<"A", "B", "S", " ", "2">>>>,
            <<>>)

\* ... with ["AUTH 1", "AUTH 2"], [("PAR 1", "text 1"), ("PAR 2", "text 2")]
FullText ==
    Content(AbstractOnly.title,
            <<<<"A", "U", "T", "H", " ", "1">>,
              <<"A", "U", "T", "H", " ", "2">>>>,
            AbstractOnly.abstract,
            << <<<<"P", "A", "R", " ", "1">>,
                 <<"t", "e", "x", "t", " ", "1">>>>,
               <<<<"P", "A", "R", " ", "2">>,
                 <<"t", "e", "x", "t", " ", "2">>>> >>)

\* No title, no abstract, and a body whose first paragraph has no section.
LeadingUntitledBody ==
    Content(<<>>, <<>>, <<>>,
            << <<(<<>>), FullText.paragraphs[1][2]>>,
               FullText.paragraphs[2] >>)

\* What a PDFParser gives: "", [], [], [("Article Chunk", "Hello world!")]
PdfChunks ==
    Content(<<>>, <<>>, <<>>,
            << << <<"A", "r", "t", "i", "c", "l", "e", " ",
                      "C", "h", "u", "n", "k">>,
                    <<"H", "e", "l", "l", "o", " ",
                      "w", "o", "r", "l", "d", "!">> >> >>)

\* datetime.datetime(year, month, day, hour, minute)
DateTime(y, m, d, hh, mm) ==
    [t |-> "datetime", v |-> <<y, m, d, hh, mm>>]

\* What date, journal and article_type read from a document.
Meta(date, journal, article_type) ==
    [date |-> date, journal |-> journal, article_type |-> article_type]

NoMeta == Meta(PyNone, PyNone, PyNone)
FullMeta ==
    Meta(DateTime(2014, 1, 12, 13, 45),
         PyStr(<<"1", "2", "3", "4", "-", "5", "6", "7", "8">>),
         PyStr(<<"r", "e", "v", "i", "e", "w">>))

\* The element slots each variant reads an identifier from ("Base" is a
\* subclass that stores the four values, like the parsers of the tests).
SlotsRead(variant) ==
    CASE variant = "Base" -> {"pubmed", "pmc", "arxiv", "doi"}
      [] variant = "JATS" -> {"pubmed", "pmc", "doi"}
      [] variant = "PubMed" -> {"pubmed", "pmc", "doi"}
      [] variant = "TEI" -> {"arxiv", "doi"}
      [] variant = "XOCS" -> {"pubmed", "doi"}
      [] variant = "CORD19" -> {"pmc"}
      [] OTHER -> {}

Variants == {"Base", "JATS", "PubMed", "TEI", "XOCS", "CORD19", "PDF"}

\* The parsers: for each variant, every content and metadata it can give
\* and every value of the slots it reads (a slot it does not read is left
\* out of the document).
Parsers ==
    LET ContentsOf(variant) ==
            CASE variant = "PDF" -> {PdfChunks}
              [] variant = "PubMed" -> {AbstractOnly}
              [] OTHER -> {AbstractOnly, FullText, LeadingUntitledBody}
        MetaOf(variant) ==
            IF variant = "PDF" THEN {NoMeta} ELSE {NoMeta, FullMeta}
        SlotValues(variant, slot) ==
            IF slot \notin SlotsRead(variant) THEN {Absent}
            ELSE IF variant = "Base" THEN {Absent, Elem(PyStr(S_1234))}
            ELSE IF variant = "CORD19"
                 THEN {Elem(PyNone), Elem(PyStr(S_1234))}
            ELSE {Absent, Elem(PyNone), Elem(PyStr(S_1234))}
    IN  UNION {
            {[variant |-> variant, content |-> c, meta |-> m,
              pubmed |-> e1, pmc |-> e2, arxiv |-> e3, doi |-> e4] :
                c \in ContentsOf(variant), m \in MetaOf(variant),
                e1 \in SlotValues(variant, "pubmed"),
                e2 \in SlotValues(variant, "pmc"),
                e3 \in SlotValues(variant, "arxiv"),
                e4 \in SlotValues(variant, "doi")} :
            variant \in Variants}

\* The property pubmed_id: PubMedXMLParser takes .text of the PMID element
\* without a test for None; the others give None for a missing element.
PubmedId(p) ==
    IF p.variant = "PubMed" /\ ~p.pubmed.present
    THEN Raise("AttributeError")
    ELSE Return(TextOrNone(p.pubmed))

\* The properties pmc_id, arxiv_id and doi.
PmcId(p) == Return(TextOrNone(p.pmc))
ArxivId(p) == Return(TextOrNone(p.arxiv))
Doi(p) == Return(TextOrNone(p.doi))

\* str(list(self.authors)), str(list(self.abstract))
StrOfStrList(l) == ReprList([i \in 1..Len(l) |-> ReprStr(l[i])])

\* str(list(self.paragraphs))
StrOfPairList(l) ==
    ReprList([i \in 1..Len(l) |->
                 ReprTuple(<<ReprStr(l[i][1]), ReprStr(l[i][2])>>)])

\* The md5 over title, authors, abstract and paragraphs.
ContentHash(p) ==
    MD5Hex(Encode(p.content.title)
           \o Encode(StrOfStrList(p.content.authors))
           \o Encode(StrOfStrList(p.content.abstract))
           \o Encode(StrOfPairList(p.content.paragraphs)))

\* ArticleParser.uid
BaseUidDoiFirst(p) ==
    LET pubmed_id == PubmedId(p)
        identifiers_ == <<Doi(p).value, pubmed_id.value, PmcId(p).value,
                          ArxivId(p).value>>
    IN  IF pubmed_id.exc # "none" THEN pubmed_id
        ELSE IF AllNone(identifiers_) THEN Return(PyStr(ContentHash(p)))
        ELSE GetUidFromIdentifiers(identifiers_)
BaseUid(p) ==
    LET pubmed_id == PubmedId(p)
        identifiers_ == <<pubmed_id.value, PmcId(p).value, ArxivId(p).value,
                          Doi(p).value>>
    IN  IF pubmed_id.exc # "none" THEN pubmed_id
        ELSE IF AllNone(identifiers_) THEN Return(PyStr(ContentHash(p)))
        ELSE GetUidFromIdentifiers(identifiers_)

\* XOCSXMLParser.uid: .text of the prism:doi element, without a test for
\* None.
XocsUidHashed(p) == BaseUid(p)
XocsUid(p) ==
    IF p.doi.present THEN Return(p.doi.text) ELSE Raise("AttributeError")

\* The property uid of a parser.
Uid(p) == IF p.variant = "XOCS" THEN XocsUid(p) ELSE BaseUid(p)

\* The decimal digits of n, zero-padded to width.
RECURSIVE Digits(_, _)
Digits(n, width) ==
    IF width = 0 THEN <<>>
    ELSE Digits(n \div 10, width - 1) \o <<HexDigits[(n % 10) + 1]>>

\* date_dt.strftime("%Y-%m-%d")
Strftime(dt) ==
    Digits(dt.v[1], 4) \o <<"-">> \o Digits(dt.v[2], 2) \o <<"-">>
    \o Digits(dt.v[3], 2)

\* cls(title=title, ..., article_type=article_type) on the values read, or
\* the first exception of a read.
ArticleOfReads(p, adjusted, pubmed_id, uid) ==
    IF pubmed_id.exc # "none" THEN [exc |-> pubmed_id.exc, value |-> PyNone]
    ELSE IF uid.exc # "none" THEN [exc |-> uid.exc, value |-> PyNone]
    ELSE [exc |-> "none",
          value |->
            [title |-> p.content.title,
             authors |-> p.content.authors,
             abstract |-> adjusted[1],
             section_paragraphs |-> adjusted[2],
             pubmed_id |-> pubmed_id.value,
             pmc_id |-> PmcId(p).value,
             arxiv_id |-> ArxivId(p).value,
             doi |-> Doi(p).value,
             uid |-> uid.value,
             date |-> IF p.meta.date = PyNone THEN PyNone
                      ELSE PyStr(Strftime(p.meta.date)),
             journal |-> p.meta.journal,
             figures |-> PyNone,
             tables |-> PyNone,
             article_type |-> p.meta.article_type]]

\* Article.parse(parser)
ArticleParseUidAfterAdjust(p) ==
    ArticleOfReads(p,
                   AdjustAbstractAndSectionParagraphs(p.content.abstract,
                                                      p.content.paragraphs),
                   PubmedId(p),
                   Uid([p EXCEPT !.content =
                           Content(p.content.title, p.content.authors,
                                   AdjustAbstractAndSectionParagraphs(
                                       p.content.abstract,
                                       p.content.paragraphs)[1],
                                   AdjustAbstractAndSectionParagraphs(
                                       p.content.abstract,
                                       p.content.paragraphs)[2])]))
ArticleParse(p) ==
    ArticleOfReads(p,
                   AdjustAbstractAndSectionParagraphs(p.content.abstract,
                                                      p.content.paragraphs),
                   PubmedId(p), Uid(p))

ParseInit ==
    /\ parser \in Parsers
    /\ uid_read = Raise("unread")
    /\ article = Raise("unparsed")

ParseIdle ==
    /\ parser = [variant |-> "none"]
    /\ uid_read = Raise("unread")
    /\ article = Raise("unparsed")

\* A caller reads parser.uid.
ReadUid ==
    /\ uid_read.exc = "unread"
    /\ uid_read' = Uid(parser)
    /\ UNCHANGED <<parser, article, notParse>>

\* A caller runs Article.parse(parser).
RunArticleParse ==
    /\ article.exc = "unparsed"
    /\ article' = ArticleParse(parser)
    /\ UNCHANGED <<parser, uid_read, notParse>>

ParseNext == ReadUid \/ RunArticleParse

----------------------------------------------------------------------------
(* article_parser.py: JATSXMLParser._inner_text and _element_to_str *)

MaxSubElements == 2

\* An XML element: tag, text, sub-elements and tail (None is the same as ""
\* in `element.text or ""`).
Node(tag, txt, children, tail) ==
    [tag |-> tag, text |-> txt, children |-> children, tail |-> tail]

\* `element is None`: what find() gives when nothing matches.
NoElement == Node("None", <<>>, <<>>, <<>>)

\* The characters whose NFKC form differs, named by their code point: the
\* ligature fi and the no-break space.
LigatureFi == "U+FB01"
NoBreakSpace == "U+00A0"

\* unicodedata.normalize("NFKC", s) on the characters used.
RECURSIVE NFKC(_)
NFKC(s) ==
    IF s = <<>> THEN <<>>
    ELSE (IF Head(s) = LigatureFi THEN <<"f", "i">>
          ELSE IF Head(s) = NoBreakSpace THEN <<" ">>
          ELSE <<Head(s)>>)
         \o NFKC(Tail(s))

\* Whether s has the prefix at its start.
StartsWith(s, prefix) ==
    Len(s) >= Len(prefix) /\ SubSeq(s, 1, Len(prefix)) = prefix

\* html.unescape(s) on the references used: &lt; and &amp;, which HTML5 also
\* accepts without the semicolon.
RECURSIVE HtmlUnescape(_)
HtmlUnescape(s) ==
    LET Ref(name, char) ==
            IF StartsWith(s, name \o <<";">>)
            THEN <<char>> \o HtmlUnescape(SubSeq(s, Len(name) + 2, Len(s)))
            ELSE <<char>> \o HtmlUnescape(SubSeq(s, Len(name) + 1, Len(s)))
    IN  IF s = <<>> THEN <<>>
        ELSE IF StartsWith(s, <<"&", "l", "t">>) THEN Ref(<<"&", "l", "t">>, "<")
        ELSE IF StartsWith(s, <<"&", "a", "m", "p">>)
             THEN Ref(<<"&", "a", "m", "p">>, "&")
        ELSE <<Head(s)>> \o HtmlUnescape(Tail(s))

\* The tags _element_to_str has a branch for.
StyledTags ==
    {"bold", "italic", "monospace", "p", "sc", "styled-content", "underline",
     "xref"}
DroppedTags == {"disp-formula", "email", "ext-link", "inline-formula", "uri"}

RECURSIVE ElementToStr(_)
RECURSIVE SubElementParts(_)
RECURSIVE SubElementPartsNoTailOfDropped(_)

\* For each sub-element its string and then its unescaped tail, joined.
SubElementPartsNoTailOfDropped(children) ==
    IF children = <<>> THEN <<>>
    ELSE ElementToStr(Head(children))
         \o (IF Head(children).tag \in DroppedTags THEN <<>>
             ELSE HtmlUnescape(Head(children).tail))
         \o SubElementPartsNoTailOfDropped(Tail(children))
SubElementParts(children) ==
    IF children = <<>> THEN <<>>
    ELSE ElementToStr(Head(children))
         \o HtmlUnescape(Head(children).tail)
         \o SubElementParts(Tail(children))

\* _inner_text(element)
InnerText(e) ==
    Strip(NFKC(HtmlUnescape(e.text) \o SubElementParts(e.children)))

\* _element_to_str(element)
ElementToStr(e) ==
    IF e = NoElement THEN <<>>
    ELSE IF e.tag \in StyledTags THEN InnerText(e)
    ELSE IF e.tag = "sub" THEN <<"_">> \o InnerText(e)
    ELSE IF e.tag = "sup" THEN <<"^">> \o InnerText(e)
    ELSE IF e.tag \in DroppedTags THEN <<>>
    ELSE InnerText(e)

\* The elements handed to _element_to_str: every tag with a branch and one
\* without, over sub-elements that are kept, prefixed or dropped, with and
\* without a tail and a sub-element of their own.
SubElements ==
    {Node(tag, <<"b">>, grandchildren, tail) :
        tag \in {"bold", "sub", "uri"},
        grandchildren \in {<<>>, <<Node("sup", <<"2">>, <<>>, <<NoBreakSpace>>)>>},
        tail \in {<<>>, <<" ", "&", "a", "m", "p", ";", " ">>}}

Elements ==
    {NoElement} \cup
    {Node(tag, txt, children, <<>>) :
        tag \in StyledTags \cup DroppedTags \cup {"sub", "sup", "unknown-tag"},
        txt \in {<<>>, <<" ", "a", " ">>, <<LigatureFi, "&", "l", "t", ";">>},
        children \in SeqsUpTo(SubElements, MaxSubElements)}

EtsIdle ==
    /\ element = NoElement
    /\ element_str = Raise("idle")

EtsInit ==
    /\ element \in Elements
    /\ element_str = Raise("uncalled")

\* A caller runs self._element_to_str(element).
CallElementToStr ==
    /\ element_str.exc = "uncalled"
    /\ element_str' = [exc |-> "none", value |-> ElementToStr(element)]
    /\ UNCHANGED <<element, notEts>>

----------------------------------------------------------------------------
(* article_parser.py: JATSXMLParser.parse_section and paragraphs *)

MaxBodyChildren == 3

\* element.find(tag): the first direct child with the tag, or None.
Find(e, tag) ==
    IF \E i \in 1..Len(e.children) : e.children[i].tag = tag
    THEN e.children[CHOOSE i \in 1..Len(e.children) :
                        /\ e.children[i].tag = tag
                        /\ \A j \in 1..(i - 1) : e.children[j].tag # tag]
    ELSE NoElement

\* element.findall(tag): the direct children with the tag, in order.
FindAll(e, tag) == SelectSeq(e.children, LAMBDA c : c.tag = tag)

\* The concatenation of a sequence of sequences.
RECURSIVE Concat(_)
Concat(seqs) == IF seqs = <<>> THEN <<>> ELSE Head(seqs) \o Concat(Tail(seqs))

\* findall(".//tag") from e: the descendants with the tag, in document order.
RECURSIVE Descendants(_, _)
Descendants(e, tag) ==
    Concat([i \in 1..Len(e.children) |->
               (IF e.children[i].tag = tag THEN <<e.children[i]>> ELSE <<>>)
               \o Descendants(e.children[i], tag)])

AuthorContributions ==
    <<"A", "u", "t", "h", "o", "r", " ", "c", "o",
       "n", "t", "r", "i", "b", "u", "t", "i", "o", "n", "s">>

\* sec_title == "Author contributions"
SkippedSectionNever(sec_title) == FALSE
SkippedSection(sec_title) == sec_title = AuthorContributions

\* The children parse_section passes over.
SkippedChildTagsWithoutLabel == {"title", "caption", "fig", "table-wrap"}
SkippedChildTags == {"title", "caption", "fig", "table-wrap", "label"}

\* parse_section(section): the pairs it yields, in order.
RECURSIVE ParseSection(_)
ParseSection(section) ==
    LET sec_title == ElementToStr(Find(section, "title"))
        OfChild(c) ==
            IF c.tag = "sec" THEN ParseSection(c)
            ELSE IF c.tag \in SkippedChildTags THEN <<>>
            ELSE IF ElementToStr(c) # <<>>
                 THEN << <<sec_title, ElementToStr(c)>> >>
                 ELSE <<>>
    IN  IF SkippedSection(sec_title) THEN <<>>
        ELSE Concat([i \in 1..Len(section.children) |->
                        OfChild(section.children[i])])

\* " ".join(self._element_to_str(c) for c in caption_elements)
JoinedCaption(caption_elements) ==
    Join([i \in 1..Len(caption_elements) |->
             ElementToStr(caption_elements[i])], <<" ">>)

\* table.findall("./caption/p") or table.findall("./caption/title")
CaptionElementsTitleFirst(table) ==
    LET In(tag) == Concat([i \in 1..Len(FindAll(table, "caption")) |->
                              FindAll(FindAll(table, "caption")[i], tag)])
    IN  IF In("title") # <<>> THEN In("title") ELSE In("p")
CaptionElements(table) ==
    LET In(tag) == Concat([i \in 1..Len(FindAll(table, "caption")) |->
                              FindAll(FindAll(table, "caption")[i], tag)])
    IN  IF In("p") # <<>> THEN In("p") ELSE In("title")

\* One entry with the label for each caption that is truthy.
CaptionEntries(label, captions) ==
    Concat([i \in 1..Len(captions) |->
               IF captions[i] # <<>> THEN << <<label, captions[i]>> >>
               ELSE <<>>])

F_Caption == <<"F", "i", "g", "u", "r", "e", " ", "C", "a", "p", "t", "i", "o", "n">>
T_Caption == <<"T", "a", "b", "l", "e", " ", "C", "a", "p", "t", "i", "o", "n">>

\* JATSXMLParser.paragraphs for a document with this <body> (None when the
\* document has none; an element without children is falsy).
JatsParagraphs(body_) ==
    LET figs == IF body_ = NoElement THEN <<>> ELSE Descendants(body_, "fig")
        tables == IF body_ = NoElement THEN <<>>
                  ELSE Descendants(body_, "table-wrap")
    IN  (IF body_ # NoElement /\ body_.children # <<>>
         THEN ParseSection(body_) ELSE <<>>)
        \o CaptionEntries(F_Caption,
               [i \in 1..Len(figs) |->
                   JoinedCaption(FindAll(figs[i], "caption"))])
        \o CaptionEntries(T_Caption,
               [i \in 1..Len(tables) |->
                   JoinedCaption(CaptionElements(tables[i]))])

\* A leaf element, and an element whose content is its children.
Leaf(tag, txt) == Node(tag, txt, <<>>, <<>>)
Parent(tag, children) == Node(tag, <<>>, children, <<>>)

JpIdle ==
    /\ body = NoElement
    /\ jats_paragraphs = Raise("idle")

\* The documents: no body, or a body of paragraphs, labels, figures (no
\* caption, one, two, two empty ones), tables (the children of their
\* caption) and sections, titled or not, with sections nested in them.
JpInit ==
    LET TitleChild(t) == IF t = <<>> THEN <<>> ELSE <<Leaf("title", t)>>
        Figs ==
            {Parent("fig", captions) :
                captions \in
                    {<<>>, <<Leaf("caption", <<"c">>)>>,
                     <<Leaf("caption", <<>>), Leaf("caption", <<>>)>>,
                     <<Leaf("caption", <<"c">>), Leaf("caption", <<"d">>)>>}}
        TableWraps ==
            {Parent("table-wrap", <<Parent("caption", kids)>>) :
                kids \in {<<>>, <<Leaf("p", <<"t">>)>>,
                          <<Leaf("title", <<"T">>)>>,
                          <<Leaf("title", <<"T">>), Leaf("p", <<>>)>>,
                          <<Leaf("p", <<>>), Leaf("p", <<>>)>>}}
        InnerSections ==
            {Parent("sec", TitleChild(t) \o kids) :
                t \in {<<>>, <<"I", "n">>, AuthorContributions},
                kids \in {<<Leaf("p", <<"x">>)>>,
                          <<Parent("fig", <<Leaf("caption", <<"c">>)>>)>>}}
        Sections ==
            {Parent("sec", TitleChild(t) \o kids) :
                t \in {<<>>, <<"O", "u", "t">>, AuthorContributions},
                kids \in {<<Leaf("p", <<"x">>)>>}
                         \cup {<<is, Leaf("p", <<"x">>)>> :
                                  is \in InnerSections}}
        BodyChildren ==
            {Leaf("p", <<>>), Leaf("p", <<"y">>), Leaf("label", <<"L">>)}
            \cup Sections \cup Figs \cup TableWraps
    IN  /\ body \in {NoElement}
                   \cup {Parent("body", children) :
                            children \in SeqsUpTo(BodyChildren,
                                                  MaxBodyChildren)}
        /\ jats_paragraphs = Raise("unread")

\* A caller reads parser.paragraphs.
ReadJatsParagraphs ==
    /\ jats_paragraphs.exc = "unread"
    /\ jats_paragraphs' = [exc |-> "none", value |-> JatsParagraphs(body)]
    /\ UNCHANGED <<body, notJp>>

----------------------------------------------------------------------------
(* article_parser.py: PDFParser.paragraphs *)

MaxPdfTextLen == 5
MaxChunkSize == 3

\* str.split(): the maximal runs of characters that are not whitespace.
RECURSIVE SplitFrom(_, _)
SplitFrom(s, token) ==
    IF s = <<>> THEN (IF token = <<>> THEN <<>> ELSE <<token>>)
    ELSE IF IsSpace(Head(s))
         THEN (IF token = <<>> THEN <<>> ELSE <<token>>)
              \o SplitFrom(Tail(s), <<>>)
         ELSE SplitFrom(Tail(s), Append(token, Head(s)))
Split(s) == SplitFrom(s, <<>>)

Min(a, b) == IF a <= b THEN a ELSE b

\* tokens[lo:hi] for 0 <= lo: the slice ends with the list.
Slice(tokens, lo, hi) == SubSeq(tokens, lo + 1, Min(hi, Len(tokens)))

\* len(tokens) // chunk_size for a positive chunk_size.
NParagraphsRoundedUp(n, size) == (n + size - 1) \div size
NParagraphs(n, size) == n \div size

S_ArticleChunk ==
    <<"A", "r", "t", "i", "c", "l", "e", " ", "C", "h", "u", "n", "k">>

\* PDFParser.paragraphs: a division by zero when min(len(tokens),
\* self.chunk_size) is 0, and an empty range when it is negative.
PdfParagraphsGuarded(pdf_text_, chunk_size_) ==
    IF Min(Len(Split(pdf_text_)), chunk_size_) <= 0
    THEN [exc |-> "none", value |-> <<>>]
    ELSE [exc |-> "none",
          value |->
            [k \in 1..NParagraphs(Len(Split(pdf_text_)),
                                  Min(Len(Split(pdf_text_)), chunk_size_)) |->
                <<S_ArticleChunk,
                  Join(Slice(Split(pdf_text_),
                             (k - 1) * Min(Len(Split(pdf_text_)), chunk_size_),
                             k * Min(Len(Split(pdf_text_)), chunk_size_)),
                       <<" ">>)>>]]

PdfParagraphs(pdf_text_, chunk_size_) ==
    LET tokens == Split(pdf_text_)
        size == Min(Len(tokens), chunk_size_)
    IN  IF size = 0 THEN Raise("ZeroDivisionError")
        ELSE IF size < 0 THEN [exc |-> "none", value |-> <<>>]
        ELSE [exc |-> "none",
              value |->
                [k \in 1..NParagraphs(Len(tokens), size) |->
                    <<S_ArticleChunk,
                      Join(Slice(tokens, (k - 1) * size, k * size),
                           <<" ">>)>>]]

S_HelloWorld == <<"H", "e", "l", "l", "o", " ", "w", "o", "r", "l", "d", "!">>

PdfIdle ==
    /\ pdf_text = <<>>
    /\ chunk_size = 0
    /\ pdf_paragraphs = Raise("idle")
    /\ pdf_article = Raise("idle")

PdfInit ==
    /\ pdf_text \in SeqsUpTo({"a", "b", " "}, MaxPdfTextLen) \cup {S_HelloWorld}
    /\ chunk_size \in -1..MaxChunkSize
    /\ pdf_paragraphs = Raise("unread")
    /\ pdf_article = Raise("unparsed")

\* Article.parse on a PDFParser: title, authors and abstract are empty;
\* an exception of the read of paragraphs leaves parse without a record,
\* otherwise abstract and paragraphs are reconciled into the record.
PdfArticleParse(pdf_text_, chunk_size_) ==
    IF PdfParagraphs(pdf_text_, chunk_size_).exc # "none"
    THEN Raise(PdfParagraphs(pdf_text_, chunk_size_).exc)
    ELSE [exc |-> "none",
          value |->
            [title |-> <<>>,
             authors |-> <<>>,
             abstract |->
                AdjustAbstractAndSectionParagraphs(
                    <<>>, PdfParagraphs(pdf_text_, chunk_size_).value)[1],
             section_paragraphs |->
                AdjustAbstractAndSectionParagraphs(
                    <<>>, PdfParagraphs(pdf_text_, chunk_size_).value)[2]]]

\* A caller reads parser.paragraphs.
ReadPdfParagraphs ==
    /\ pdf_paragraphs.exc = "unread"
    /\ pdf_paragraphs' = PdfParagraphs(pdf_text, chunk_size)
    /\ UNCHANGED <<pdf_text, chunk_size, pdf_article, notPdf>>

\* A caller runs Article.parse(parser).
ParsePdfArticle ==
    /\ pdf_article.exc = "unparsed"
    /\ pdf_article' = PdfArticleParse(pdf_text, chunk_size)
    /\ UNCHANGED <<pdf_text, chunk_size, pdf_paragraphs, notPdf>>

PdfNext == ReadPdfParagraphs \/ ParsePdfArticle

----------------------------------------------------------------------------
(* article_parser.py: XOCSXMLParser, its constructor and its paragraphs *)

MaxSections == 2
MaxMarkers == 2

\* `element.text is None`, which "" is not: _strip_text(None) fails.
NoText == <<"None">>

\* What find() gives when nothing matches, for elements with qualified tags.
Missing == Node(<<>>, NoText, <<>>, <<>>)

S_FullTextRetrievalResponse ==
    <<"f", "u", "l", "l", "-", "t", "e", "x", "t", "-", "r", "e", "t", "r",
      "i", "e", "v", "a", "l", "-", "r", "e", "s", "p", "o", "n", "s", "e">>
S_AbstractsRetrievalResponse ==
    <<"a", "b", "s", "t", "r", "a", "c", "t", "s", "-", "r", "e", "t", "r",
      "i", "e", "v", "a", "l", "-", "r", "e", "s", "p", "o", "n", "s", "e">>

\* self.namespace of a parser of type "full" and of type "abstract".
FullNamespace ==
    [ce |-> "http://www.elsevier.com/xml/common/dtd",
     dc |-> "http://purl.org/dc/elements/1.1/",
     default |-> "http://www.elsevier.com/xml/svapi/article/dtd",
     ja |-> "http://www.elsevier.com/xml/ja/dtd",
     prism |-> "http://prismstandard.org/namespaces/basic/2.0/",
     xocs |-> "http://www.elsevier.com/xml/xocs/dtd"]
AbstractNamespace ==
    [ce |-> "http://www.elsevier.com/xml/ani/common",
     dc |-> "http://purl.org/dc/elements/1.1/",
     default |-> "http://www.elsevier.com/xml/svapi/abstract/dtd",
     prism |-> "http://prismstandard.org/namespaces/basic/2.0/",
     xocs |-> "http://www.elsevier.com/xml/xocs/dtd"]

\* The tag ElementTree gives an element, "{uri}local", in pieces: the uri
\* and a local name looked up whole are one piece each, the name of the
\* root, which the constructor searches, is spelled out.
QName(prefix, local, namespace) == <<"{", namespace[prefix], "}", local>>
RootTag(uri, name) == <<"{", uri, "}">> \o name

\* XOCSXMLParser.__init__: the type and the namespace map the root tag
\* selects, the one test after the other.
NewXocsAbstractFirst(content) ==
    IF Contains(content.tag, S_AbstractsRetrievalResponse)
    THEN [exc |-> "none", content |-> content, type |-> "abstract",
          namespace |-> AbstractNamespace]
    ELSE IF Contains(content.tag, S_FullTextRetrievalResponse)
    THEN [exc |-> "none", content |-> content, type |-> "full",
          namespace |-> FullNamespace]
    ELSE [exc |-> "ValueError", content |-> content, type |-> "unset",
          namespace |-> <<>>]
NewXocs(content) ==
    IF Contains(content.tag, S_FullTextRetrievalResponse)
    THEN [exc |-> "none", content |-> content, type |-> "full",
          namespace |-> FullNamespace]
    ELSE IF Contains(content.tag, S_AbstractsRetrievalResponse)
    THEN [exc |-> "none", content |-> content, type |-> "abstract",
          namespace |-> AbstractNamespace]
    ELSE [exc |-> "ValueError", content |-> content, type |-> "unset",
          namespace |-> <<>>]

\* The first element of a findall, as find() gives it.
First(found) == IF found = <<>> THEN Missing ELSE Head(found)

\* element.findall("a/b/c"): the path followed through direct children.
RECURSIVE FindAllPath(_, _)
FindAllPath(e, path) ==
    IF path = <<>> THEN <<e>>
    ELSE Concat([i \in 1..Len(e.children) |->
                    IF e.children[i].tag = Head(path)
                    THEN FindAllPath(e.children[i], Tail(path))
                    ELSE <<>>])

\* "".join(element.itertext()): the text of the element and, for each
\* child in order, its itertext and its tail.
RECURSIVE IterText(_)
IterText(e) ==
    (IF e.text = NoText THEN <<>> ELSE e.text)
    \o Concat([i \in 1..Len(e.children) |->
                  IterText(e.children[i]) \o e.children[i].tail])

\* text.split("\n")
RECURSIVE SplitLines(_)
SplitLines(s) ==
    IF \A k \in 1..Len(s) : s[k] # "\n" THEN <<s>>
    ELSE <<SubSeq(s, 1, (CHOOSE k \in 1..Len(s) :
                            /\ s[k] = "\n"
                            /\ \A j \in 1..(k - 1) : s[j] # "\n") - 1)>>
         \o SplitLines(SubSeq(s, (CHOOSE k \in 1..Len(s) :
                                     /\ s[k] = "\n"
                                     /\ \A j \in 1..(k - 1) : s[j] # "\n") + 1,
                              Len(s)))

\* XOCSXMLParser._strip_text
StripLines(lines) ==
    Join(SelectSeq([i \in 1..Len(lines) |-> Strip(lines[i])],
                   LAMBDA line : line # <<>>),
         <<"\n">>)
StripText(text_) == StripLines(SplitLines(text_))

\* bool(element): an element that was found and has sub-elements.
TruthyWhenFound(e) == e # Missing
Truthy(e) == e # Missing /\ e.children # <<>>

\* The loop of the simple-article branch over the sections under the body.
SimpleArticleFails(sections, namespace) ==
    \E i \in 1..Len(sections) :
        \E j \in 1..Len(FindAll(sections[i], QName("ce", "para", namespace))) :
            FindAll(sections[i], QName("ce", "para", namespace))[j].text
                = NoText
SimpleArticleEntries(sections, namespace) ==
    Concat([i \in 1..Len(sections) |->
               [j \in 1..Len(FindAll(sections[i],
                                     QName("ce", "para", namespace))) |->
                   <<<<>>,
                     StripText(FindAll(sections[i],
                                       QName("ce", "para", namespace))[j].text)
                   >>]])

\* The loop of the article branch over every section of the document.
ArticleFails(sections, namespace) ==
    \E i \in 1..Len(sections) :
        First(FindAll(sections[i], QName("ce", "section-title", namespace)))
            = Missing
ArticleEntries(sections, namespace) ==
    Concat([i \in 1..Len(sections) |->
               [j \in 1..Len(FindAll(sections[i],
                                     QName("ce", "para", namespace))) |->
                   <<StripText(IterText(First(FindAll(sections[i],
                          QName("ce", "section-title", namespace))))),
                     StripText(IterText(FindAll(sections[i],
                          QName("ce", "para", namespace))[j]))>>]])

\* `if body:` and the branches on the marker under the serial-item.
BodyEntries(content, xdoc, body_, namespace) ==
    IF ~Truthy(body_) THEN [exc |-> "none", value |-> <<>>]
    ELSE IF xdoc = Missing THEN Raise("AttributeError")
    ELSE IF Truthy(First(FindAll(xdoc,
                QName("ja", "simple-article", namespace))))
    THEN IF SimpleArticleFails(
                Descendants(body_, QName("ce", "section", namespace)),
                namespace)
         THEN Raise("AttributeError")
         ELSE [exc |-> "none",
               value |-> SimpleArticleEntries(
                   Descendants(body_, QName("ce", "section", namespace)),
                   namespace)]
    ELSE IF Truthy(First(FindAll(xdoc, QName("ja", "article", namespace))))
    THEN IF ArticleFails(
                Descendants(content, QName("ce", "section", namespace)),
                namespace)
         THEN Raise("AttributeError")
         ELSE [exc |-> "none",
               value |-> ArticleEntries(
                   Descendants(content, QName("ce", "section", namespace)),
                   namespace)]
    ELSE IF Truthy(First(FindAll(xdoc,
                QName("ja", "converted-article", namespace))))
    THEN Raise("NotImplementedError")
    ELSE Raise("ValueError")

\* The figures, tables and text boxes of the document, in that order.
Floats(content, namespace) ==
    Descendants(content, QName("ce", "figure", namespace))
    \o Descendants(content, QName("ce", "table", namespace))
    \o Descendants(content, QName("ce", "text-box", namespace))

\* float_.findall(".//ce:caption/ce:simple-para")
CaptionParas(float_, namespace) ==
    Concat([i \in 1..Len(Descendants(float_,
                                     QName("ce", "caption", namespace))) |->
               FindAll(Descendants(float_,
                                   QName("ce", "caption", namespace))[i],
                       QName("ce", "simple-para", namespace))])

\* label.text.strip() and par.text.strip() of a text that is None.
FloatFails(float_, namespace) ==
    \/ /\ Descendants(float_, QName("ce", "label", namespace)) # <<>>
       /\ Head(Descendants(float_, QName("ce", "label", namespace))).text
              = NoText
    \/ \E i \in 1..Len(CaptionParas(float_, namespace)) :
           CaptionParas(float_, namespace)[i].text = NoText

FloatEntry(float_, namespace) ==
    <<IF Descendants(float_, QName("ce", "label", namespace)) = <<>>
      THEN <<>>
      ELSE Strip(Head(Descendants(float_,
                                  QName("ce", "label", namespace))).text),
      Concat([i \in 1..Len(CaptionParas(float_, namespace)) |->
                 Strip(CaptionParas(float_, namespace)[i].text)])>>

FloatEntries(floats, namespace) ==
    [i \in 1..Len(floats) |-> FloatEntry(floats[i], namespace)]

\* The entries of the floats appended to those of the body.
WithFloats(entries, floats, namespace) ==
    IF entries.exc # "none" THEN entries
    ELSE IF \E i \in 1..Len(floats) : FloatFails(floats[i], namespace)
    THEN Raise("AttributeError")
    ELSE [exc |-> "none",
          value |-> entries.value \o FloatEntries(floats, namespace)]

\* XOCSXMLParser.paragraphs
XocsParagraphs(p) ==
    IF p.type = "full"
    THEN WithFloats(
             BodyEntries(
                 p.content,
                 First(FindAllPath(p.content,
                     <<QName("default", "originalText", p.namespace),
                       QName("xocs", "doc", p.namespace),
                       QName("xocs", "serial-item", p.namespace)>>)),
                 First(Descendants(p.content,
                                   QName("ja", "body", p.namespace))),
                 p.namespace),
             Floats(p.content, p.namespace),
             p.namespace)
    ELSE [exc |-> "none", value |-> <<>>]

\* XOCSXMLParser.article_type
TextFn(dochead, namespace) ==
    First(FindAll(dochead, QName("ce", "textfn", namespace)))
XocsArticleType(p) ==
    IF \/ First(Descendants(p.content,
                            QName("ce", "dochead", p.namespace))) = Missing
       \/ TextFn(First(Descendants(p.content,
                    QName("ce", "dochead", p.namespace))), p.namespace)
              = Missing
    THEN Return(PyNone)
    ELSE IF TextFn(First(Descendants(p.content,
                     QName("ce", "dochead", p.namespace))), p.namespace).text
                = NoText
    THEN Raise("AttributeError")
    ELSE Return(PyStr(Strip(
             TextFn(First(Descendants(p.content,
                 QName("ce", "dochead", p.namespace))), p.namespace).text)))

NoParser ==
    [exc |-> "unconstructed", content |-> Missing, type |-> "unset",
     namespace |-> <<>>]

XocsIdle ==
    /\ xocs_data = Missing
    /\ xocs = NoParser
    /\ xocs_paragraphs = Raise("idle")
    /\ xocs_article_type = Raise("idle")

\* The documents.  Under a root named full-text-retrieval-response: a
\* serial-item or none; under it up to MaxMarkers markers, each empty, with
\* a head, or holding the body; a body with no child or with up to
\* MaxSections sections, each with or without a section-title and with
\* paragraphs (one of them with no text of its own); the body also away
\* from the markers; a section outside the body; floats; a dochead.  A
\* smaller document under a root named abstracts-retrieval-response and
\* under roots of other names, some of which hold one of the two names.
XocsInit ==
    LET n == FullNamespace
        E(prefix, local, txt, kids) ==
            Node(QName(prefix, local, n), txt, kids, <<>>)
        Para == E("ce", "para", <<" ", "a", "\n", " ", "b">>, <<>>)
        ParaOfBold ==
            E("ce", "para", NoText, <<E("ce", "bold", <<"x">>, <<>>)>>)
        Titles ==
            {<<>>,
             <<E("ce", "section-title", <<"T", " ">>, <<>>)>>,
             <<E("ce", "section-title", <<"T">>,
                 <<Node(QName("ce", "italic", n), <<"i">>, <<>>, <<"t">>)>>)>>}
        Sections ==
            {E("ce", "section", NoText, t \o <<Para>>) : t \in Titles}
            \cup {E("ce", "section", NoText,
                     <<E("ce", "section-title", <<"T", " ">>, <<>>),
                       ParaOfBold>>)}
        Bodies ==
            {E("ja", "body", NoText, <<>>)}
            \cup {E("ja", "body", NoText, <<E("ce", "sections", NoText, ss)>>) :
                     ss \in SeqsUpTo(Sections, MaxSections)}
        Kinds == {"simple-article", "article", "converted-article"}
        Markers(b) ==
            {E("ja", k, NoText, kids) : k \in Kinds, kids \in {<<>>, <<b>>}}
            \cup {E("ja", "converted-article", NoText,
                     <<E("ja", "head", NoText, <<>>)>>)}
        Figure ==
            E("ce", "figure", NoText,
              <<E("ce", "label", <<"F", "1", " ">>, <<>>),
                E("ce", "caption", NoText,
                  <<E("ce", "simple-para", <<" ", "c">>, <<>>),
                    E("ce", "simple-para", <<"d">>, <<>>)>>)>>)
        Table ==
            E("ce", "table", NoText,
              <<E("ce", "caption", NoText,
                  <<E("ce", "simple-para", <<"t">>, <<>>)>>)>>)
        TextBox ==
            E("ce", "text-box", NoText, <<E("ce", "label", NoText, <<>>)>>)
        Extras ==
            {<<>>,
             <<E("ce", "floats", NoText, <<Table, Figure>>)>>,
             <<E("ce", "floats", NoText, <<TextBox>>)>>,
             <<E("ce", "dochead", NoText,
                 <<E("ce", "textfn", <<" ", "R", "A">>, <<>>)>>)>>,
             <<E("ce", "section", NoText,
                 <<E("ce", "section-title", <<"O">>, <<>>), Para>>)>>,
             <<E("ce", "section", NoText, <<Para>>)>>}
        SerialItem(markers) ==
            E("default", "originalText", NoText,
              <<E("xocs", "doc", NoText,
                  <<E("xocs", "serial-item", NoText, markers)>>)>>)
        Children ==
            UNION {{<<SerialItem(markers)>> \o extra :
                        markers \in SeqsUpTo(Markers(b), MaxMarkers),
                        extra \in Extras} : b \in Bodies}
            \cup UNION {{<<SerialItem(markers)>> \o <<b>> \o extra :
                            markers \in SeqsUpTo(Markers(b), 1),
                            extra \in Extras} : b \in Bodies}
            \cup {stray \o extra : stray \in {<<>>} \cup {<<b>> : b \in Bodies},
                                   extra \in Extras}
        FewChildren ==
            {<<SerialItem(<<E("ja", "article", NoText, <<b>>)>>)>> :
                b \in Bodies}
        FullRootTag == RootTag(n.default, S_FullTextRetrievalResponse)
        OtherRootTags ==
            {RootTag(AbstractNamespace.default, S_AbstractsRetrievalResponse),
             S_FullTextRetrievalResponse,
             S_AbstractsRetrievalResponse,
             RootTag(n.default, <<"d", "o", "c">>),
             <<"d", "o", "c">>,
             RootTag(n.default, S_FullTextRetrievalResponse \o <<"s">>),
             RootTag(n.default, <<"x", "-">> \o S_AbstractsRetrievalResponse),
             RootTag(n.default, S_AbstractsRetrievalResponse \o <<"-">>
                                \o S_FullTextRetrievalResponse)}
    IN  /\ xocs_data \in {Node(FullRootTag, NoText, kids, <<>>) :
                             kids \in Children}
                        \cup {Node(tag, NoText, kids \o extra, <<>>) :
                                 tag \in OtherRootTags,
                                 kids \in FewChildren, extra \in Extras}
        /\ xocs = NoParser
        /\ xocs_paragraphs = Raise("unread")
        /\ xocs_article_type = Raise("unread")

\* XOCSXMLParser(data): ElementTree.fromstring and the test of the root tag.
ConstructXocs ==
    /\ xocs.exc = "unconstructed"
    /\ xocs' = NewXocs(xocs_data)
    /\ UNCHANGED <<xocs_data, xocs_paragraphs, xocs_article_type, notXocs>>

\* A caller reads parser.paragraphs.
ReadXocsParagraphs ==
    /\ xocs.exc = "none"
    /\ xocs_paragraphs' = XocsParagraphs(xocs)
    /\ UNCHANGED <<xocs_data, xocs, xocs_article_type, notXocs>>

\* A caller reads parser.article_type.
ReadXocsArticleType ==
    /\ xocs.exc = "none"
    /\ xocs_article_type' = XocsArticleType(xocs)
    /\ UNCHANGED <<xocs_data, xocs, xocs_paragraphs, notXocs>>

XocsNext == ConstructXocs \/ ReadXocsParagraphs \/ ReadXocsArticleType

----------------------------------------------------------------------------
(* article_parser.py: JATSXMLParser.from_zip *)

MaxMembers == 3

S_ContentSlash == <<"c", "o", "n", "t", "e", "n", "t", "/">>
S_DotXml == <<".", "x", "m", "l">>

\* A member of the archive: its name, and whether ElementTree.parse reads
\* its bytes as a document.
Member(name, well_formed) == [name |-> name, well_formed |-> well_formed]

\* myzip.namelist()
NameList(members) == [i \in 1..Len(members) |-> members[i].name]

\* x.startswith("content/") and x.endswith(".xml")
IsXmlFileAnywhere(x) == EndsWith(x, S_DotXml)
IsXmlFile(x) == StartsWith(x, S_ContentSlash) /\ EndsWith(x, S_DotXml)

\* myzip.open(name): the member of that name, the last one written.
OpenMember(members, name) ==
    members[CHOOSE i \in 1..Len(members) :
                /\ members[i].name = name
                /\ \A j \in (i + 1)..Len(members) : members[j].name # name]

\* cls(fh): the parser over the parsed member, or the error of the parse.
NewJats(member) ==
    IF member.well_formed
    THEN [exc |-> "none", content |-> member.name]
    ELSE [exc |-> "ParseError", content |-> <<>>]

\* JATSXMLParser.from_zip: the names opened, and the parser or the error.
FromZipOf(xml_files, members) ==
    IF Len(xml_files) # 1
    THEN [opened |-> <<>>, parser |-> [exc |-> "ValueError", content |-> <<>>]]
    ELSE [opened |-> <<xml_files[1]>>,
          parser |-> NewJats(OpenMember(members, xml_files[1]))]
FromZip(members) ==
    FromZipOf(SelectSeq(NameList(members), IsXmlFile), members)

ZipIdle ==
    /\ myzip = <<>>
    /\ zip_opened = <<>>
    /\ zip_parser = [exc |-> "idle", content |-> <<>>]

\* The archives: up to MaxMembers members, under content/ or not, named
\* .xml or not, one of them not a document.
ZipInit ==
    LET Names ==
            {S_ContentSlash \o <<"a">> \o S_DotXml,
             S_ContentSlash \o <<"b">> \o S_DotXml,
             S_ContentSlash \o <<"d", "/", "c">> \o S_DotXml,
             S_ContentSlash \o <<"a", ".", "t", "x", "t">>,
             S_ContentSlash \o <<"a">> \o S_DotXml \o <<"~">>,
             <<"a">> \o S_DotXml,
             <<"x">> \o S_ContentSlash \o <<"a">> \o S_DotXml,
             <<"m", "a", "n", "i", "f", "e", "s", "t">> \o S_DotXml}
        Members ==
            {Member(name, TRUE) : name \in Names}
            \cup {Member(S_ContentSlash \o <<"e">> \o S_DotXml, FALSE)}
    IN  /\ myzip \in SeqsUpTo(Members, MaxMembers)
        /\ zip_opened = <<>>
        /\ zip_parser = [exc |-> "uncalled", content |-> <<>>]

\* A caller calls JATSXMLParser.from_zip(path).
CallFromZip ==
    /\ zip_parser.exc = "uncalled"
    /\ zip_opened' = FromZip(myzip).opened
    /\ zip_parser' = FromZip(myzip).parser
    /\ UNCHANGED <<myzip, notZip>>

----------------------------------------------------------------------------
(* app/routers/parsing.py: parse_grobidpdf and call_parsing;
   utils.py: grobid_pdf_to_tei_xml *)

MaxAuthors == 2

\* What the GROBID server does with the POST: it answers with a status, or
\* the connection fails.
ServerOutcomes == {"200", "404", "500", "503", "ConnectError", "ReadTimeout"}

\* The TEI document the server returns: whether it parses, whether it has
\* a title, for each persName whether it holds a name, and whether a div
\* holds a child of an unexpected tag.
TeiDocument(well_formed, has_title, named_authors, unexpected_tag) ==
    [well_formed |-> well_formed, has_title |-> has_title,
     named_authors |-> named_authors, unexpected_tag |-> unexpected_tag]

\* params of parse_grobidpdf: the url of the settings, then the keys of the
\* form field `data`, which may hold a "url" of their own.
Params(settings_url, data) ==
    IF data.present /\ data.url # "absent"
    THEN [url |-> data.url] ELSE [url |-> settings_url]

\* utils.grobid_pdf_to_tei_xml: the post and response.raise_for_status().
GrobidPdfToTeiXml(server) ==
    IF server \in {"ConnectError", "ReadTimeout"} THEN Raise(server)
    ELSE IF server # "200" THEN Raise("HTTPStatusError")
    ELSE Return(PyStr(<<"T", "E", "I">>))

\* TEIXMLParser(xml_data) and Article.parse on it: the first read that
\* fails, in the order title, authors, abstract and paragraphs.
ParseTei(tei) ==
    IF ~tei.well_formed THEN Raise("ParseError")
    ELSE IF ~tei.has_title THEN Raise("ValueError")
    ELSE IF \E i \in 1..Len(tei.named_authors) : ~tei.named_authors[i]
    THEN Raise("ValueError")
    ELSE IF tei.unexpected_tag THEN Raise("RuntimeError")
    ELSE Return(PyStr(<<"A", "r", "t", "i", "c", "l", "e">>))

\* call_parsing(inp, "grobidpdf", **params)
CallParsing(params, server, tei) ==
    IF params.url = "None" THEN Raise("ValueError")
    ELSE IF GrobidPdfToTeiXml(server).exc # "none"
    THEN GrobidPdfToTeiXml(server)
    ELSE ParseTei(tei)

\* The response to the client: the article, the HTTPException of the
\* handler, or the 500 of an exception that leaves the handler.
ServiceUnavailable ==
    [status |-> 500, code |-> "1",
     detail |-> "Grobid server is not available."]
InternalServerError(exc) ==
    [status |-> 500, code |-> exc, detail |-> "Internal Server Error"]
Ok == [status |-> 200, code |-> "none", detail |-> "Article"]

\* parse_grobidpdf: try call_parsing, except ValueError.
ResponseOf(called) ==
    IF called.exc = "none" THEN Ok
    ELSE IF called.exc = "ValueError" THEN ServiceUnavailable
    ELSE InternalServerError(called.exc)
ParseGrobidpdf(request) ==
    ResponseOf(CallParsing(Params(request.settings_url, request.data),
                           request.server, request.tei))

NoResponse == [status |-> 0, code |-> "none", detail |-> "none"]

GrobidIdle ==
    /\ grobid_request = [settings_url |-> "None"]
    /\ grobid_response = NoResponse

\* The requests: a url in the settings or none, a form field `data` or
\* none, with a url of its own or not; every outcome of the server; every
\* document.
GrobidInit ==
    /\ grobid_request \in
          [settings_url : {"None", "http://grobid"},
           data : {[present |-> FALSE, url |-> "absent"],
                   [present |-> TRUE, url |-> "absent"],
                   [present |-> TRUE, url |-> "None"],
                   [present |-> TRUE, url |-> "http://other"]},
           server : ServerOutcomes,
           tei : {TeiDocument(w, t, a, u) :
                     w \in BOOLEAN, t \in BOOLEAN,
                     a \in SeqsUpTo(BOOLEAN, MaxAuthors), u \in BOOLEAN}]
    /\ grobid_response = NoResponse

\* A client posts a PDF to /parse/grobidpdf.
PostGrobidpdf ==
    /\ grobid_response = NoResponse
    /\ grobid_response' = ParseGrobidpdf(grobid_request)
    /\ UNCHANGED <<grobid_request, notGrobid>>

----------------------------------------------------------------------------
(* article_parser.py: the property title of the parsers *)

\* JATSXMLParser.title: _element_to_str of what find() gave.
JatsTitle(title) == [exc |-> "none", value |-> ElementToStr(title)]

\* PubMedXMLParser.title and TEIXMLParser.title: ValueError without the
\* element, else the joined itertext (TEI through its own _element_to_str).
PubMedTitle(title) ==
    IF title = NoElement THEN Raise("ValueError")
    ELSE [exc |-> "none", value |-> IterText(title)]
TeiTitle(title) ==
    IF title = NoElement THEN Raise("ValueError")
    ELSE [exc |-> "none", value |-> IterText(title)]

\* XOCSXMLParser.title: .find("dc:title") of the coredata that was found,
\* .text of the title that was found, and _strip_text of that text.
XocsTitle(coredata, title) ==
    IF ~coredata \/ title = NoElement \/ title.text = NoText
    THEN Raise("AttributeError")
    ELSE [exc |-> "none", value |-> StripText(title.text)]

\* PDFParser.title
PdfTitle == [exc |-> "none", value |-> <<>>]

\* parser.title
Title(p) ==
    CASE p.variant = "JATS" -> JatsTitle(p.title)
      [] p.variant = "PubMed" -> PubMedTitle(p.title)
      [] p.variant = "TEI" -> TeiTitle(p.title)
      [] p.variant = "XOCS" -> XocsTitle(p.coredata, p.title)
      [] p.variant = "PDF" -> PdfTitle

TitleIdle ==
    /\ title_parser = [variant |-> "none"]
    /\ title_read = Raise("idle")

\* The parsers: per dialect a document without the title element, and
\* documents with one, with text and sub-elements; for XOCS with or without
\* the coredata, and a title element without text.
TitleInit ==
    /\ title_parser \in
          {[variant |-> v, coredata |-> TRUE, title |-> t] :
              v \in {"JATS", "PubMed", "TEI"},
              t \in {NoElement}
                    \cup {Node("title", txt, children, <<>>) :
                             txt \in {<<>>, <<" ", "T", " ">>},
                             children \in SeqsUpTo(SubElements,
                                                   MaxSubElements)}}
          \cup {[variant |-> "XOCS", coredata |-> c, title |-> t] :
                   c \in BOOLEAN,
                   t \in {NoElement}
                         \cup {Node("title", txt, <<>>, <<>>) :
                                  txt \in {NoText, <<>>,
                                           <<" ", "T", "\n", " ">>}}}
          \cup {[variant |-> "PDF", coredata |-> FALSE, title |-> NoElement]}
    /\ title_read = Raise("unread")

\* A caller reads parser.title.
ReadTitle ==
    /\ title_read.exc = "unread"
    /\ title_read' = Title(title_parser)
    /\ UNCHANGED <<title_parser, notTitle>>

----------------------------------------------------------------------------
(* TEIXMLParser.tei_ids: the memoized identifier map, read by threads *)

MaxIdnos == 2
MaxReads == 3

\* The idno elements a document may carry under
\* teiHeader/fileDesc/sourceDesc/biblStruct: <<type, text>>.
Idnos == {<<"arXiv", "arXiv:2301.00001">>, <<"DOI", "10.1/a">>,
          <<"DOI", "10.1/b">>}

\* The properties a caller reads; "title" stands for title, authors,
\* abstract, paragraphs, date and journal, none of which touches _tei_ids.
Properties == {"tei_ids", "arxiv_id", "doi", "uid", "title"}

\* How many times reading the property evaluates self.tei_ids: arxiv_id and
\* doi once each, uid once through arxiv_id and once through doi.
TeiIdsCalls(property) ==
    CASE property = "tei_ids" -> 1
      [] property = "arxiv_id" -> 1
      [] property = "doi" -> 1
      [] property = "uid" -> 2
      [] OTHER -> 0

\* self._tei_ids is None, or a reference to a dict object of the heap.
NoDict == 0

\* d[k] = v on a dict held as a set of <<key, value>>: an existing key is
\* overwritten.
PutIfAbsent(d, k, v) ==
    IF \E e \in d : e[1] = k THEN d ELSE d \cup {<<k, v>>}

Put(d, k, v) == {e \in d : e[1] # k} \cup {<<k, v>>}

\* if self._tei_ids is None
NeedsBuildAlways(stored) == TRUE

NeedsBuild(stored) == stored = NoDict

TeiIdsIdle ==
    /\ tei_idnos = <<>>
    /\ tei_threads = {}
    /\ tei_ids = NoDict
    /\ tei_dicts = <<>>
    /\ tei_pc = <<>>
    /\ tei_op = <<>>
    /\ tei_calls = <<>>
    /\ tei_i = <<>>
    /\ tei_reads = 0
    /\ tei_handed = <<>>

\* __init__: _tei_ids is None; the instance is read by one thread or by two.
TeiIdsInit ==
    /\ tei_idnos \in SeqsUpTo(Idnos, MaxIdnos)
    /\ tei_threads \in {{1}, {1, 2}}
    /\ tei_ids = NoDict
    /\ tei_dicts = <<>>
    /\ tei_pc = [t \in tei_threads |-> "idle"]
    /\ tei_op = [t \in tei_threads |-> "none"]
    /\ tei_calls = [t \in tei_threads |-> 0]
    /\ tei_i = [t \in tei_threads |-> 0]
    /\ tei_reads = 0
    /\ tei_handed = <<>>

\* A thread reads title, authors, abstract, paragraphs, date or journal.
ReadOtherProperty(t) ==
    /\ tei_pc[t] = "idle"
    /\ tei_reads < MaxReads
    /\ tei_reads' = tei_reads + 1
    /\ tei_op' = [tei_op EXCEPT ![t] = "title"]
    /\ UNCHANGED <<tei_idnos, tei_threads, tei_ids, tei_dicts, tei_pc,
                   tei_calls, tei_i, tei_handed, notTeiIds>>

\* A thread starts reading tei_ids, arxiv_id, doi or uid.
ReadIdentifier(t, property) ==
    /\ tei_pc[t] = "idle"
    /\ tei_reads < MaxReads
    /\ TeiIdsCalls(property) > 0
    /\ tei_reads' = tei_reads + 1
    /\ tei_op' = [tei_op EXCEPT ![t] = property]
    /\ tei_calls' = [tei_calls EXCEPT ![t] = TeiIdsCalls(property)]
    /\ tei_pc' = [tei_pc EXCEPT ![t] = "test"]
    /\ UNCHANGED <<tei_idnos, tei_threads, tei_ids, tei_dicts, tei_i,
                   tei_handed, notTeiIds>>

\* if self._tei_ids is None
TestNone(t) ==
    /\ tei_pc[t] = "test"
    /\ tei_pc' = [tei_pc EXCEPT ![t] =
                      IF NeedsBuild(tei_ids) THEN "store" ELSE "return"]
    /\ UNCHANGED <<tei_idnos, tei_threads, tei_ids, tei_dicts, tei_op,
                   tei_calls, tei_i, tei_reads, tei_handed, notTeiIds>>

\* self._tei_ids = {}, then the findall that starts the loop
StoreEmpty(t) ==
    /\ tei_pc[t] = "store"
    /\ tei_dicts' = Append(tei_dicts, {})
    /\ tei_ids' = Len(tei_dicts) + 1
    /\ tei_i' = [tei_i EXCEPT ![t] = 0]
    /\ tei_pc' = [tei_pc EXCEPT ![t] = "loop"]
    /\ UNCHANGED <<tei_idnos, tei_threads, tei_op, tei_calls, tei_reads,
                   tei_handed, notTeiIds>>

\* One iteration: self._tei_ids[idno.get("type")] = idno.text, on the dict
\* the attribute refers to now.
FillOne(t) ==
    /\ tei_pc[t] = "loop"
    /\ tei_i[t] < Len(tei_idnos)
    /\ tei_i' = [tei_i EXCEPT ![t] = @ + 1]
    /\ tei_dicts' = [tei_dicts EXCEPT ![tei_ids] =
                         Put(@, tei_idnos[tei_i[t] + 1][1],
                             tei_idnos[tei_i[t] + 1][2])]
    /\ UNCHANGED <<tei_idnos, tei_threads, tei_ids, tei_pc, tei_op,
                   tei_calls, tei_reads, tei_handed, notTeiIds>>

\* return self._tei_ids: the caller is handed the dict the attribute refers
\* to, with the entries it has at that moment.
ReturnTeiIds(t) ==
    /\ \/ tei_pc[t] = "return"
       \/ tei_pc[t] = "loop" /\ tei_i[t] = Len(tei_idnos)
    /\ tei_handed' = Append(tei_handed,
                            [thread |-> t, property |-> tei_op[t],
                             dict |-> tei_ids,
                             entries |-> tei_dicts[tei_ids]])
    /\ tei_calls' = [tei_calls EXCEPT ![t] = @ - 1]
    /\ tei_pc' = [tei_pc EXCEPT ![t] =
                      IF tei_calls[t] > 1 THEN "test" ELSE "idle"]
    /\ UNCHANGED <<tei_idnos, tei_threads, tei_ids, tei_dicts, tei_op,
                   tei_i, tei_reads, notTeiIds>>

TeiIdsNext ==
    \/ \E t \in tei_threads : ReadOtherProperty(t)
    \/ \E t \in tei_threads, property \in Properties :
           ReadIdentifier(t, property)
    \/ \E t \in tei_threads : TestNone(t)
    \/ \E t \in tei_threads : StoreEmpty(t)
    \/ \E t \in tei_threads : FillOne(t)
    \/ \E t \in tei_threads : ReturnTeiIds(t)

----------------------------------------------------------------------------
(* article_parser.py: TEIXMLParser.abstract *)

MaxAbstractChildren == 3

\* TEIXMLParser._element_to_str
TeiElementToStrStripped(e) ==
    IF e = NoElement THEN <<>> ELSE Strip(IterText(e))

TeiElementToStr(e) ==
    IF e = NoElement THEN <<>> ELSE IterText(e)

\* _build_texts(elements) run to its end: the list of the texts it yields,
\* or the RuntimeError of an unexpected tag.
RECURSIVE BuildTextsFrom(_, _, _)
BuildTextsFrom(elements_, text_, texts_) ==
    IF elements_ = <<>>
    THEN [exc |-> "none", value |-> texts_ \o IfNonEmpty(text_)]
    ELSE IF Head(elements_).tag = "p"
    THEN IF Strip(TeiElementToStr(Head(elements_))) = <<>>
         THEN BuildTextsFrom(Tail(elements_), text_, texts_)
         ELSE IF StartsSentence(Strip(TeiElementToStr(Head(elements_))))
              THEN BuildTextsFrom(Tail(elements_),
                                  Strip(TeiElementToStr(Head(elements_))),
                                  texts_ \o IfNonEmpty(text_))
              ELSE BuildTextsFrom(Tail(elements_),
                                  text_ \o <<" ">>
                                    \o Strip(TeiElementToStr(Head(elements_))),
                                  texts_)
    ELSE IF Head(elements_).tag = "formula"
    THEN BuildTextsFrom(Tail(elements_),
                        text_ \o <<" ", "F", "O", "R", "M", "U", "L", "A">>,
                        texts_)
    ELSE IF Head(elements_).tag = "note"
    THEN BuildTextsFrom(Tail(elements_), text_, texts_)
    ELSE IF Head(elements_).tag \in {"ref", "figure"}
    THEN BuildTextsFrom(Tail(elements_),
                        text_ \o <<" ">>
                          \o Strip(TeiElementToStr(Head(elements_))),
                        texts_)
    ELSE Raise("RuntimeError")

BuildTexts(elements_) == BuildTextsFrom(elements_, <<>>, <<>>)

\* findall of the children with the tag, in document order.
ChildrenTagged(children, tag) ==
    SelectSeq(children, LAMBDA c : c.tag = tag)

\* child.tag.endswith("head"): of the tags of these documents only head
\* ends so.
EndsWithHead(tag) == tag = "head"

\* for div in content: for child in div: if not child.tag.endswith("head")
TextElements(content) ==
    Concat([k \in 1..Len(content) |->
               SelectSeq(content[k].children,
                         LAMBDA c : ~EndsWithHead(c.tag))])

\* TEIXMLParser.abstract, children being the children of the abstract
\* element.
TeiAbstract(children) ==
    IF ChildrenTagged(children, "div") = <<>>
    THEN [exc |-> "none",
          value |->
            [k \in 1..Len(ChildrenTagged(children, "p")) |->
                TeiElementToStr(ChildrenTagged(children, "p")[k])]]
    ELSE BuildTexts(TextElements(ChildrenTagged(children, "div")))

\* The children an abstract may have: paragraphs (one with a ref inside and
\* leading whitespace) and divs: with a head, without, with an unexpected
\* tag, and empty.
AbstractChildren ==
    {Node("p", <<"A", "b">>, <<>>, <<"\n">>),
     Node("p", <<" ", "s", "e", "e">>,
          <<Node("ref", <<"1">>, <<>>, <<" ", "x">>)>>, <<>>),
     Node("div", <<>>,
          <<Node("head", <<"S">>, <<>>, <<>>),
            Node("p", T_Hello, <<>>, <<>>)>>, <<>>),
     Node("div", <<>>,
          <<Node("p", T_thereDot, <<>>, <<>>),
            Node("formula", <<"x">>, <<>>, <<>>)>>, <<>>),
     Node("div", <<>>, <<Node("hahaha", <<"H">>, <<>>, <<>>)>>, <<>>),
     Node("div", <<>>, <<>>, <<>>)}

TeiAbsIdle ==
    /\ tei_abstract = <<>>
    /\ tei_abstract_read = Raise("idle")

TeiAbsInit ==
    /\ tei_abstract \in SeqsUpTo(AbstractChildren, MaxAbstractChildren)
    /\ tei_abstract_read = Raise("unread")

\* A caller reads parser.abstract.
ReadTeiAbstract ==
    /\ tei_abstract_read.exc = "unread"
    /\ tei_abstract_read' = TeiAbstract(tei_abstract)
    /\ UNCHANGED <<tei_abstract, notTeiAbs>>

----------------------------------------------------------------------------
(* Specifications: one per component, the other components idle *)

InitAdjust == AdjInit /\ BtIdle /\ UidIdle /\ ParseIdle /\ EtsIdle /\
    JpIdle /\ PdfIdle /\ XocsIdle /\ ZipIdle /\ GrobidIdle /\ TitleIdle /\
    TeiIdsIdle /\ TeiAbsIdle
SpecAdjust == InitAdjust /\ [][AdjNext]_vars

InitBuildTexts == AdjIdle /\ BtInit /\ UidIdle /\ ParseIdle /\ EtsIdle /\
    JpIdle /\ PdfIdle /\ XocsIdle /\ ZipIdle /\ GrobidIdle /\ TitleIdle /\
    TeiIdsIdle /\ TeiAbsIdle
SpecBuildTexts == InitBuildTexts /\ [][BtNext]_vars

InitUid == AdjIdle /\ BtIdle /\ UidInit /\ ParseIdle /\ EtsIdle /\ JpIdle /\
    PdfIdle /\ XocsIdle /\ ZipIdle /\ GrobidIdle /\ TitleIdle /\
    TeiIdsIdle /\ TeiAbsIdle
SpecUid == InitUid /\ [][UidNext]_vars

InitParse == AdjIdle /\ BtIdle /\ UidIdle /\ ParseInit /\ EtsIdle /\
    JpIdle /\ PdfIdle /\ XocsIdle /\ ZipIdle /\ GrobidIdle /\ TitleIdle /\
    TeiIdsIdle /\ TeiAbsIdle
SpecParse == InitParse /\ [][ParseNext]_vars

InitElementToStr == AdjIdle /\ BtIdle /\ UidIdle /\ ParseIdle /\ EtsInit /\
    JpIdle /\ PdfIdle /\ XocsIdle /\ ZipIdle /\ GrobidIdle /\ TitleIdle /\
    TeiIdsIdle /\ TeiAbsIdle
SpecElementToStr == InitElementToStr /\ [][CallElementToStr]_vars

InitJatsParagraphs == AdjIdle /\ BtIdle /\ UidIdle /\ ParseIdle /\ EtsIdle /\
    JpInit /\ PdfIdle /\ XocsIdle /\ ZipIdle /\ GrobidIdle /\ TitleIdle /\
    TeiIdsIdle /\ TeiAbsIdle
SpecJatsParagraphs == InitJatsParagraphs /\ [][ReadJatsParagraphs]_vars

InitPdf == AdjIdle /\ BtIdle /\ UidIdle /\ ParseIdle /\ EtsIdle /\ JpIdle /\
    PdfInit /\ XocsIdle /\ ZipIdle /\ GrobidIdle /\ TitleIdle /\
    TeiIdsIdle /\ TeiAbsIdle
SpecPdf == InitPdf /\ [][PdfNext]_vars

InitXocs == AdjIdle /\ BtIdle /\ UidIdle /\ ParseIdle /\ EtsIdle /\ JpIdle /\
    PdfIdle /\ XocsInit /\ ZipIdle /\ GrobidIdle /\ TitleIdle /\
    TeiIdsIdle /\ TeiAbsIdle
SpecXocs == InitXocs /\ [][XocsNext]_vars

InitFromZip == AdjIdle /\ BtIdle /\ UidIdle /\ ParseIdle /\ EtsIdle /\
    JpIdle /\ PdfIdle /\ XocsIdle /\ ZipInit /\ GrobidIdle /\ TitleIdle /\
    TeiIdsIdle /\ TeiAbsIdle
SpecFromZip == InitFromZip /\ [][CallFromZip]_vars

InitGrobid == AdjIdle /\ BtIdle /\ UidIdle /\ ParseIdle /\ EtsIdle /\
    JpIdle /\ PdfIdle /\ XocsIdle /\ ZipIdle /\ GrobidInit /\ TitleIdle /\
    TeiIdsIdle /\ TeiAbsIdle
SpecGrobid == InitGrobid /\ [][PostGrobidpdf]_vars

InitTitle == AdjIdle /\ BtIdle /\ UidIdle /\ ParseIdle /\ EtsIdle /\
    JpIdle /\ PdfIdle /\ XocsIdle /\ ZipIdle /\ GrobidIdle /\ TitleInit /\
    TeiIdsIdle /\ TeiAbsIdle
SpecTitle == InitTitle /\ [][ReadTitle]_vars

InitTeiIds == AdjIdle /\ BtIdle /\ UidIdle /\ ParseIdle /\ EtsIdle /\
    JpIdle /\ PdfIdle /\ XocsIdle /\ ZipIdle /\ GrobidIdle /\ TitleIdle /\
    TeiIdsInit /\ TeiAbsIdle
SpecTeiIds == InitTeiIds /\ [][TeiIdsNext]_vars

InitTeiAbstract == AdjIdle /\ BtIdle /\ UidIdle /\ ParseIdle /\ EtsIdle /\
    JpIdle /\ PdfIdle /\ XocsIdle /\ ZipIdle /\ GrobidIdle /\ TitleIdle /\
    TeiIdsIdle /\ TeiAbsInit
SpecTeiAbstract == InitTeiAbstract /\ [][ReadTeiAbstract]_vars

----------------------------------------------------------------------------
(* Claims on the reconciliation *)

\* K leading entries of sp are untitled and entry K (0-based) is titled, or
\* K is the length and no entry is titled.
LeadingUntitled(sp, K) ==
    /\ \A i \in 1..K : sp[i][1] = <<>>
    /\ K < Len(sp) => sp[K + 1][1] # <<>>

\* C1: with an empty abstract and K leading untitled entries, one call
\* returns the texts of entries [0, K) as the abstract and entries [K, end)
\* as section_paragraphs; with no titled entry K is the length, every text
\* moves to the abstract and section_paragraphs becomes empty.
C1_ReconcileSplitsAtFirstTitled ==
    (n_adjust >= 1 /\ in_abstract = <<>>) =>
        \A K \in 0..Len(in_section_paragraphs) :
            LeadingUntitled(in_section_paragraphs, K) =>
                /\ Len(first_abstract) = K
                /\ \A i \in 1..K :
                      first_abstract[i] = in_section_paragraphs[i][2]
                /\ first_section_paragraphs =
                      SubSeq(in_section_paragraphs, K + 1,
                             Len(in_section_paragraphs))
                /\ (K = Len(in_section_paragraphs)
                        => first_section_paragraphs = <<>>)

\* C1 witness: two untitled entries were moved and a titled one was kept.
C1_Witness ==
    /\ n_adjust = 1
    /\ in_abstract = <<>>
    /\ in_section_paragraphs =
          << <<(<<>>), <<"a">> >>, <<(<<>>), <<"b">> >>, << <<"S">>, <<"a">> >> >>
    /\ abstract = << <<"a">>, <<"b">> >>
    /\ section_paragraphs = << << <<"S">>, <<"a">> >> >>

\* C2: the reconciliation is idempotent: applied to its own output it
\* returns that output unchanged.
C2_ReconcileIdempotent ==
    n_adjust = 2 =>
        /\ abstract = first_abstract
        /\ section_paragraphs = first_section_paragraphs

\* C2 witness: a second application after a first one that moved an
\* empty-string text into the abstract.
C2_Witness ==
    /\ n_adjust = 2
    /\ in_abstract = <<>>
    /\ first_abstract = << <<>> >>
    /\ abstract = << <<>> >>
    /\ Len(section_paragraphs) = 1

\* C3: a non-empty abstract passes through: abstract and section_paragraphs
\* are returned unchanged, whatever the section titles are.
C3_NonEmptyAbstractPassThrough ==
    (n_adjust >= 1 /\ in_abstract # <<>>) =>
        /\ first_abstract = in_abstract
        /\ first_section_paragraphs = in_section_paragraphs

\* C3 witness: a non-empty abstract and a leading untitled entry, after the
\* call.
C3_Witness ==
    /\ n_adjust = 1
    /\ in_abstract # <<>>
    /\ Len(in_section_paragraphs) >= 2
    /\ in_section_paragraphs[1][1] = <<>>
    /\ section_paragraphs = in_section_paragraphs

\* The texts of a list of (title, text) entries, in order.
TextsOf(sp) == [i \in 1..Len(sp) |-> sp[i][2]]

\* C28: the reconciliation conserves the paragraph texts: the output
\* abstract followed by the texts of the output section_paragraphs is the
\* input abstract followed by the texts of the input section_paragraphs,
\* in the same order, and the entries left in section_paragraphs are
\* entries of the input, title included, from some position to the end.
C28_TextsConserved ==
    n_adjust >= 1 =>
        /\ first_abstract \o TextsOf(first_section_paragraphs)
               = in_abstract \o TextsOf(in_section_paragraphs)
        /\ \E k \in 0..Len(in_section_paragraphs) :
               first_section_paragraphs
                   = [i \in 1..(Len(in_section_paragraphs) - k) |->
                         in_section_paragraphs[k + i]]

\* C28 witness: one untitled entry was moved in front of two kept ones, the
\* second of which is untitled and stays where it is.
C28_Witness ==
    /\ n_adjust = 1
    /\ in_abstract = <<>>
    /\ in_section_paragraphs =
          << <<(<<>>), <<"b">> >>, << <<"S">>, <<"a">> >>, <<(<<>>), <<"a">> >> >>
    /\ first_abstract = << <<"b">> >>
    /\ first_section_paragraphs =
          << << <<"S">>, <<"a">> >>, <<(<<>>), <<"a">> >> >>

----------------------------------------------------------------------------
(* Claims on _build_texts *)

\* The fold the claim describes, over children cs with buffer buf and the
\* texts out emitted so far; upper is the set of letters that count as
\* uppercase.
Flush(buf) ==
    IF buf = <<>> THEN <<>>
    ELSE IF buf[Len(buf)] = "." THEN <<buf>> ELSE <<buf \o <<".">>>>

RECURSIVE FoldTexts(_, _, _, _)
FoldTexts(cs, buf, out, upper) ==
    IF cs = <<>> THEN out \o Flush(buf)
    ELSE LET c == Head(cs)
             rest == Tail(cs)
             t == Strip(c.text)
         IN  CASE c.tag = "p" /\ t = <<>> -> FoldTexts(rest, buf, out, upper)
               [] c.tag = "p" /\ t # <<>> /\ t[1] \in upper ->
                     FoldTexts(rest, t, out \o Flush(buf), upper)
               [] c.tag = "p" /\ t # <<>> /\ t[1] \notin upper ->
                     FoldTexts(rest, buf \o <<" ">> \o t, out, upper)
               [] c.tag = "formula" ->
                     FoldTexts(rest,
                               buf \o <<" ", "F", "O", "R", "M", "U", "L", "A">>,
                               out, upper)
               [] c.tag = "note" -> FoldTexts(rest, buf, out, upper)
               [] c.tag \in {"ref", "figure"} ->
                     FoldTexts(rest, buf \o <<" ">> \o t, out, upper)
               [] OTHER -> FoldTexts(rest, buf, out, upper)

KnownTagsOnly ==
    \A i \in 1..Len(elements) :
        elements[i].tag \in {"p", "formula", "note", "ref", "figure"}

P(t) == Element("p", t)

\* The three scenarios of the claim.
BuildTextsScenarios ==
    /\ elements = <<P(T_Hello), P(T_thereDot)>>
          => texts = << T_Hello \o <<" ">> \o T_thereDot >>
    /\ elements = <<P(T_HelloDot), P(T_ThereDot)>>
          => texts = <<T_HelloDot, T_ThereDot>>
    /\ elements = <<P(T_As), Element("formula", <<"x">>), P(T_shows)>>
          => texts = << <<"A", "s", " ", "F", "O", "R", "M", "U", "L", "A", " ">>
                        \o T_shows >>

\* C9 as stated: the texts yielded equal the fold in which a paragraph
\* that begins with an uppercase letter (any uppercase letter) flushes the
\* buffer.
C9_BuildTextsIsFold_AnyUppercase ==
    (bt_pc = "done" /\ KnownTagsOnly) =>
        /\ texts = FoldTexts(elements, <<>>, <<>>, UnicodeUppercase)
        /\ BuildTextsScenarios

\* C9 amended: the texts yielded equal the fold in which a paragraph that
\* begins with one of the ASCII letters A-Z flushes the buffer; a paragraph
\* that begins with any other character, an uppercase letter outside A-Z
\* included, is appended after one space.
C9_BuildTextsIsFold ==
    (bt_pc = "done" /\ KnownTagsOnly) =>
        /\ texts = FoldTexts(elements, <<>>, <<>>, AsciiUppercase)
        /\ BuildTextsScenarios

\* C9 witness: 'As' + formula + 'shows...' was stitched into one text.
C9_Witness ==
    /\ bt_pc = "done"
    /\ elements = <<P(T_As), Element("formula", <<"x">>), P(T_shows)>>
    /\ Len(texts) = 1
    /\ EndsWith(texts[1], T_shows)

\* Some <p>, <ref> or <figure> text of the input holds a doubled period.
InputHasDoubledPeriod ==
    \E i \in 1..Len(elements) :
        /\ elements[i].tag \in {"p", "ref", "figure"}
        /\ Contains(elements[i].text, <<".", ".">>)

OnlyEmptyParagraphs ==
    \A i \in 1..Len(elements) :
        elements[i].tag = "p" /\ Strip(elements[i].text) = <<>>

\* C10: every text yielded, at an intermediate flush or at the end, is
\* non-empty and ends with a period; it ends with a doubled period only if
\* the input held one; and an empty child sequence, or one of empty
\* paragraphs only, yields nothing.
C10_EmittedTextsEndWithOnePeriod ==
    /\ \A k \in 1..Len(texts) :
          /\ texts[k] # <<>>
          /\ EndsWith(texts[k], <<".">>)
          /\ EndsWith(texts[k], <<".", ".">>) => InputHasDoubledPeriod
    /\ (bt_pc = "done" /\ OnlyEmptyParagraphs) => texts = <<>>

\* C10 witness: an intermediate flush of a buffer that already ended with a
\* period, before the end of the child sequence.
C10_Witness ==
    /\ bt_pc = "loop"
    /\ bt_i = 2
    /\ Len(elements) = 3
    /\ elements[1] = P(T_HelloDot)
    /\ texts = <<T_HelloDot>>

\* The tags _build_texts has a branch for.
KnownTags == {"p", "formula", "note", "ref", "figure"}

HasUnexpectedTag == \E i \in 1..Len(elements) : elements[i].tag \notin KnownTags

\* C11: when the children hold an element whose tag is not p, formula, note,
\* ref or figure, at whatever position, the generator ends with RuntimeError
\* and never by exhaustion, and abstract and paragraphs return no list; a run
\* that is exhausted had known tags only and both lists are returned.
C11_UnexpectedTagRaises ==
    /\ (bt_pc = "done") => ~HasUnexpectedTag
    /\ (bt_pc = "raised") =>
          /\ HasUnexpectedTag
          /\ elements[bt_i + 1].tag \notin KnownTags
          /\ \A i \in 1..bt_i : elements[i].tag \in KnownTags
          /\ tei_returned.abstract.exc = "RuntimeError"
          /\ tei_returned.paragraphs.exc = "RuntimeError"
    /\ (bt_pc = "loop" /\ HasUnexpectedTag) =>
          \E i \in (bt_i + 1)..Len(elements) : elements[i].tag \notin KnownTags
    /\ (tei_returned.abstract.exc = "none"
           \/ tei_returned.paragraphs.exc = "none") =>
          (bt_pc = "done" /\ ~HasUnexpectedTag)

\* A text was yielded before the bad tag at the third position was met.
C11_Witness ==
    /\ bt_pc = "raised"
    /\ bt_i = 2
    /\ texts = <<T_HelloDot>>
    /\ tei_returned.paragraphs.exc = "RuntimeError"
    /\ tei_returned.abstract.exc = "RuntimeError"

\* C27: after any child has been processed the buffer does not end with a
\* space, a ref or figure with an empty text included, and no emitted text
\* has a space directly before its final period.
C27_NoSpaceAtEndOfText ==
    /\ text # <<>> => text[Len(text)] # " "
    /\ \A i \in 1..Len(texts) :
           Len(texts[i]) >= 2 => texts[i][Len(texts[i]) - 1] # " "

----------------------------------------------------------------------------
(* Claims on get_uid_from_identifiers *)

\* The digests test_generate_uid_from_identifiers expects.
Uid_a_b ==
    <<"a", "c", "a", "1", "4", "e", "6", "5", "4", "b", "c", "2", "8", "c", "e", "1",
      "c", "1", "e", "8", "1", "3", "1", "0", "0", "4", "2", "4", "4", "d", "6", "4">>
Uid_b_a ==
    <<"8", "2", "c", "a", "2", "4", "0", "c", "4", "a", "3", "f", "5", "5", "7", "9",
      "a", "5", "c", "3", "3", "4", "0", "4", "a", "f", "5", "8", "e", "4", "1", "b">>
Uid_a_None ==
    <<"4", "b", "5", "1", "5", "f", "9", "2", "0", "f", "b", "b", "c", "7", "9", "5",
      "4", "f", "c", "5", "a", "6", "8", "b", "b", "7", "4", "6", "b", "1", "0", "9">>
Uid_None_a ==
    <<"7", "7", "f", "2", "8", "3", "f", "2", "e", "8", "7", "b", "8", "5", "2", "e",
      "d", "7", "a", "8", "8", "1", "e", "6", "f", "6", "3", "8", "a", "a", "8", "0">>
Uid_None_0 ==
    <<"1", "4", "5", "3", "6", "e", "0", "2", "6", "b", "2", "a", "3", "9", "c", "a",
      "f", "2", "7", "f", "3", "d", "a", "8", "0", "2", "e", "7", "f", "e", "d", "6">>

Id_a == PyStr(<<"a">>)
Id_b == PyStr(<<"b">>)
Id_0 == PyInt(<<"0">>)

\* Some element of the tuple is present (is not None).
SomePresent(ids) == \E i \in 1..Len(ids) : ids[i].t # "None"

\* Every call on (a, None), (None, a) and (a, b) gave the digest the tests
\* expect: three pairwise different digests.
AbsentCountsAsValue ==
    /\ \A k \in 1..Len(uid_calls) :
          /\ uid_calls[k].args = <<Id_a, PyNone>>
                => uid_calls[k].result = Return(PyStr(Uid_a_None))
          /\ uid_calls[k].args = <<PyNone, Id_a>>
                => uid_calls[k].result = Return(PyStr(Uid_None_a))
          /\ uid_calls[k].args = <<Id_a, Id_b>>
                => uid_calls[k].result = Return(PyStr(Uid_a_b))
    /\ Uid_a_None # Uid_None_a
    /\ Uid_a_None # Uid_a_b
    /\ Uid_None_a # Uid_a_b

\* C4 as stated: on a tuple with a present identifier two calls give the
\* same digest, and a call on a permutation of the tuple (other than the
\* identity) gives a digest different from that of the original ordering.
C4_EveryPermutationChangesDigest ==
    (Len(uid_calls) = 3 /\ SomePresent(identifiers)) =>
        /\ uid_calls[2].result = uid_calls[1].result
        /\ uid_calls[3].perm # Identity(Len(identifiers))
              => uid_calls[3].result # uid_calls[1].result
        /\ AbsentCountsAsValue

\* C4 amended: on a tuple with a present identifier two calls give the same
\* digest, and a permutation that changes the tuple (puts a different value
\* at some position) gives a different digest, while one that only
\* exchanges equal values gives the same digest; an absent identifier counts
\* as a value: (a, None), (None, a) and (a, b) get pairwise different
\* digests.
C4_UidDeterministicAndOrderSensitive ==
    (Len(uid_calls) >= 2 /\ SomePresent(identifiers)) =>
        /\ uid_calls[1].result.exc = "none"
        /\ uid_calls[2].result = uid_calls[1].result
        /\ Len(uid_calls) = 3 =>
              (uid_calls[3].args # identifiers
                  <=> uid_calls[3].result # uid_calls[1].result)
        /\ AbsentCountsAsValue

\* C4 witness: (a, None) then its permutation (None, a), with different
\* digests.
C4_Witness ==
    /\ Len(uid_calls) = 3
    /\ identifiers = <<Id_a, PyNone>>
    /\ uid_calls[3].args = <<PyNone, Id_a>>
    /\ uid_calls[1].result = Return(PyStr(Uid_a_None))
    /\ uid_calls[3].result = Return(PyStr(Uid_None_a))

\* C5: a call raises ValueError and returns no digest exactly when every
\* element of its tuple is None, whatever the length of the tuple (the
\* empty tuple included); any non-None value, the int 0 included, makes it
\* return a digest of 32 hex digits.
C5_AllAbsentRaisesValueError ==
    \A k \in 1..Len(uid_calls) :
        LET c == uid_calls[k]
        IN  /\ ~SomePresent(c.args) => c.result = Raise("ValueError")
            /\ SomePresent(c.args) =>
                  /\ c.result.exc = "none"
                  /\ c.result.value.t = "str"
                  /\ Len(c.result.value.v) = 32
            /\ c.args = <<PyNone, Id_0>>
                  => c.result = Return(PyStr(Uid_None_0))

\* C5 witness: the call on (None, None, None) raised ValueError.
C5_Witness ==
    /\ Len(uid_calls) >= 1
    /\ uid_calls[1].args = <<PyNone, PyNone, PyNone>>
    /\ uid_calls[1].result.exc = "ValueError"

----------------------------------------------------------------------------
(* Claims on the uid of the parser variants and of Article.parse *)

\* The digests of tests/article_parser_test.py::test_general_article_uid.
Uid_doi_1234 ==
    <<"9", "c", "f", "c", "4", "5", "f", "5", "8", "1", "7", "b",
      "5", "4", "4", "a", "c", "2", "6", "e", "0", "2", "a", "9",
      "0", "7", "1", "8", "0", "2", "b", "6">>
Uid_AbstractOnly ==
    <<"7", "2", "2", "9", "b", "1", "8", "9", "1", "6", "b", "a",
      "8", "b", "8", "3", "b", "2", "0", "d", "2", "4", "3", "d",
      "5", "c", "a", "a", "f", "5", "6", "a">>
Uid_FullText ==
    <<"2", "1", "2", "f", "7", "7", "2", "f", "a", "f", "8", "0",
      "1", "5", "1", "8", "f", "8", "d", "d", "9", "f", "7", "4",
      "5", "a", "1", "c", "9", "4", "b", "2">>

\* The four identifiers of the parser in hand, in the order of the claim.
FourIdentifiers ==
    <<PubmedId(parser).value, PmcId(parser).value, ArxivId(parser).value,
      Doi(parser).value>>

\* The uid of the base class was read, and the four identifiers could be.
BaseUidRead ==
    /\ uid_read.exc # "unread"
    /\ parser.variant # "XOCS"
    /\ PubmedId(parser).exc = "none"

\* C6: the uid of the base class is get_uid_from_identifiers of
\* (pubmed_id, pmc_id, arxiv_id, doi) whenever one of them is present,
\* whatever the content (the doi 1.234 alone gives the digest of the tests
\* for every content); it is the hash of title, authors, abstract and
\* paragraphs exactly when all four are absent.
C6_BaseUidFromIdentifiersElseContent ==
    BaseUidRead =>
        /\ SomePresent(FourIdentifiers) =>
              /\ uid_read = GetUidFromIdentifiers(FourIdentifiers)
              /\ uid_read.value.v # ContentHash(parser)
        /\ ~SomePresent(FourIdentifiers) =>
              uid_read = Return(PyStr(ContentHash(parser)))
        /\ FourIdentifiers = <<PyNone, PyNone, PyNone, PyStr(S_1234)>> =>
              uid_read.value.v = Uid_doi_1234
        /\ (~SomePresent(FourIdentifiers) /\ parser.content = AbstractOnly) =>
              uid_read.value.v = Uid_AbstractOnly
        /\ (~SomePresent(FourIdentifiers) /\ parser.content = FullText) =>
              uid_read.value.v = Uid_FullText

C6_Witness ==
    /\ BaseUidRead
    /\ parser.variant = "TEI"
    /\ parser.content = FullText
    /\ FourIdentifiers = <<PyNone, PyNone, PyNone, PyStr(S_1234)>>
    /\ uid_read = Return(PyStr(Uid_doi_1234))

\* C7: for every parser variant (JATS, PubMed, TEI, XOCS, CORD-19, PDF) and
\* every document (title, authors, abstract and paragraphs can be read from
\* each of them), reading uid succeeds and gives a string, and Article.parse
\* returns a record whose uid is a string.
C7_UidAlwaysDerivable ==
    parser.variant \in {"JATS", "PubMed", "TEI", "XOCS", "CORD19", "PDF"} =>
        /\ uid_read.exc # "unread" =>
              (uid_read.exc = "none" /\ uid_read.value.t = "str")
        /\ article.exc # "unparsed" =>
              (article.exc = "none" /\ article.value.uid.t = "str")

\* C8: for an XOCS document that has the prism:doi element, uid is the text
\* of that element and equals the doi property, whatever pubmed_id and the
\* content are; the record of Article.parse carries it as uid and as doi.
C8_XocsUidIsDoiText ==
    (parser.variant = "XOCS" /\ parser.doi.present) =>
        /\ uid_read.exc # "unread" =>
              (uid_read = Return(parser.doi.text) /\ uid_read = Doi(parser))
        /\ article.exc # "unparsed" =>
              /\ article.exc = "none"
              /\ article.value.uid = parser.doi.text
              /\ article.value.uid = article.value.doi

C8_Witness ==
    /\ parser.variant = "XOCS"
    /\ parser.doi = Elem(PyStr(S_1234))
    /\ parser.pubmed = Elem(PyStr(S_1234))
    /\ parser.content = FullText
    /\ uid_read = Return(PyStr(S_1234))
    /\ article.exc = "none"
    /\ article.value.uid = PyStr(S_1234)

\* Article.parse returned a record.
ArticleParsed == article.exc = "none"

\* The (abstract, section_paragraphs) the reconciliation gives for the
\* content of the parser in hand: with an abstract, both as read; without
\* one, the texts of the leading untitled paragraphs and the rest.
Reconciled(abstract_, paragraphs) ==
    IF abstract_ # <<>> THEN <<abstract_, paragraphs>>
    ELSE LET n == CHOOSE k \in 0..Len(paragraphs) :
                      LeadingUntitled(paragraphs, k)
         IN  <<[i \in 1..n |-> paragraphs[i][2]],
               [i \in 1..(Len(paragraphs) - n) |-> paragraphs[n + i]]>>

S_2014_01_12 == <<"2", "0", "1", "4", "-", "0", "1", "-", "1", "2">>

\* C21: the record of Article.parse carries title, authors, pubmed_id,
\* pmc_id, arxiv_id, doi, uid, journal and article_type as read from the
\* parser, the reconciliation of (parser.abstract, parser.paragraphs) as
\* abstract and section_paragraphs, no date exactly when the parser has
\* none and else its YYYY-MM-DD rendering without the time of day, and
\* figures and tables unset; the uid is the one the parser computes from
\* its own content, before the reconciliation.
C21_RecordOfReads ==
    ArticleParsed =>
        /\ article.value.title = parser.content.title
        /\ article.value.authors = parser.content.authors
        /\ article.value.pubmed_id = PubmedId(parser).value
        /\ article.value.pmc_id = PmcId(parser).value
        /\ article.value.arxiv_id = ArxivId(parser).value
        /\ article.value.doi = Doi(parser).value
        /\ article.value.uid = Uid(parser).value
        /\ article.value.journal = parser.meta.journal
        /\ article.value.article_type = parser.meta.article_type
        /\ <<article.value.abstract, article.value.section_paragraphs>>
               = Reconciled(parser.content.abstract, parser.content.paragraphs)
        /\ article.value.date.t = "None" <=> parser.meta.date.t = "None"
        /\ parser.meta.date = DateTime(2014, 1, 12, 13, 45)
               => article.value.date = PyStr(S_2014_01_12)
        /\ article.value.figures = PyNone
        /\ article.value.tables = PyNone

\* A TEI document without identifiers, dated, whose leading untitled
\* paragraph the reconciliation moved into the abstract: the uid of the
\* record is the hash of the content as the parser gives it.
C21_Witness ==
    /\ ArticleParsed
    /\ parser.variant = "TEI"
    /\ parser.content = LeadingUntitledBody
    /\ parser.meta = FullMeta
    /\ ~SomePresent(FourIdentifiers)
    /\ article.value.abstract = <<LeadingUntitledBody.paragraphs[1][2]>>
    /\ article.value.uid = PyStr(ContentHash(parser))
    /\ article.value.date = PyStr(S_2014_01_12)

\* C26: the reconciliation of Article.parse affects only TEI parsers: the
\* record of a JATS, PubMed, CORD-19, XOCS or PDF parser carries the
\* abstract and the paragraphs of the parser unchanged.
C26_OnlyTeiReconciled ==
    (ArticleParsed
     /\ parser.variant \in {"JATS", "PubMed", "CORD19", "XOCS", "PDF"})
        => /\ article.value.abstract = parser.content.abstract
           /\ article.value.section_paragraphs = parser.content.paragraphs

----------------------------------------------------------------------------
(* Claims on JATSXMLParser._element_to_str *)

RECURSIVE ClaimedStr(_, _)
RECURSIVE ClaimedParts(_, _)

\* The text of a node or a tail as the result takes it: as it stands
\* (literal), or with its character references resolved.
ClaimedText(s, literal) == IF literal THEN s ELSE HtmlUnescape(s)

\* For each child its flattened text followed by the child's trailing text.
ClaimedParts(children, literal) ==
    IF children = <<>> THEN <<>>
    ELSE ClaimedStr(Head(children), literal)
         \o ClaimedText(Head(children).tail, literal)
         \o ClaimedParts(Tail(children), literal)

\* The inner text: the node's own text, then the children's parts, trimmed
\* (and, when not literal, brought to NFKC form before the trimming).
ClaimedInnerText(e, literal) ==
    LET joined == ClaimedText(e.text, literal)
                  \o ClaimedParts(e.children, literal)
    IN  Strip(IF literal THEN joined ELSE NFKC(joined))

\* The flattened text of a node, tag by tag.
ClaimedStr(e, literal) ==
    CASE e = NoElement -> <<>>
      [] e # NoElement /\ e.tag \in {"disp-formula", "inline-formula", "email",
                                     "ext-link", "uri"} -> <<>>
      [] e # NoElement /\ e.tag = "sub" -> <<"_">> \o ClaimedInnerText(e, literal)
      [] e # NoElement /\ e.tag = "sup" -> <<"^">> \o ClaimedInnerText(e, literal)
      [] OTHER -> ClaimedInnerText(e, literal)

\* C12 as stated: _element_to_str gives "" for an absent node and for the
\* five dropped tags, "_" or "^" and the inner text for sub and sup, and the
\* inner text for every other tag, where the inner text is the node's own
\* text and, for each child, its flattened text and its tail, trimmed.
C12_ElementToStrOfLiteralText ==
    element_str.exc = "none" =>
        element_str.value = ClaimedStr(element, TRUE)

\* C12, amended: the same, where the node's own text and the tails have
\* their HTML character references resolved and the joined string is
\* brought to NFKC form before it is trimmed.
C12_ElementToStr ==
    element_str.exc = "none" =>
        element_str.value = ClaimedStr(element, FALSE)

\* A paragraph whose dropped child has a tail with a reference: "a  &".
C12_Witness ==
    /\ element = Node("p", <<" ", "a", " ">>,
                      <<Node("uri", <<"b">>, <<>>,
                             <<" ", "&", "a", "m", "p", ";", " ">>)>>, <<>>)
    /\ element_str.exc = "none"
    /\ element_str.value = <<"a", " ", " ", "&">>

----------------------------------------------------------------------------
(* Claims on JATSXMLParser.parse_section and paragraphs *)

\* The walk of a section as C13 states it: a pair for each child that is not
\* a sec, title, caption, fig, table-wrap or label and has a non-empty
\* flattened text, titled by the title child of the section it stands in,
\* each sec child walked at its position.  With except_skipped, a section
\* titled 'Author contributions' gives nothing.
RECURSIVE Walk(_, _)
Walk(section, except_skipped) ==
    LET title == ElementToStr(Find(section, "title"))
        Pairs(c) ==
            CASE c.tag = "sec" -> Walk(c, except_skipped)
              [] c.tag \in {"title", "caption", "fig", "table-wrap", "label"}
                   -> <<>>
              [] OTHER -> IF ElementToStr(c) = <<>> THEN <<>>
                          ELSE << <<title, ElementToStr(c)>> >>
    IN  IF except_skipped /\ title = AuthorContributions THEN <<>>
        ELSE Concat([i \in 1..Len(section.children) |->
                        Pairs(section.children[i])])

CaptionLabels == {F_Caption, T_Caption}

\* The paragraphs read start with the pairs w and go on with captions only.
BodyPairsAre(w) ==
    /\ Len(jats_paragraphs.value) >= Len(w)
    /\ SubSeq(jats_paragraphs.value, 1, Len(w)) = w
    /\ \A i \in (Len(w) + 1)..Len(jats_paragraphs.value) :
          jats_paragraphs.value[i][1] \in CaptionLabels

JatsParagraphsRead == jats_paragraphs.exc = "none" /\ body # NoElement

\* C13 as stated: the pairs of the body are the walk of every section, in
\* document order, each pair titled by its own section.
C13_WalkOfEverySection ==
    JatsParagraphsRead => BodyPairsAre(Walk(body, FALSE))

\* C13, amended: the same for the sections that are not titled
\* 'Author contributions'; such a section gives no pair.
C13_ParseSectionWalk ==
    JatsParagraphsRead => BodyPairsAre(Walk(body, TRUE))

\* An untitled section nested in the section 'Out': its paragraph is titled
\* '', not 'Out'.
C13_Witness ==
    /\ JatsParagraphsRead
    /\ body = Parent("body",
                <<Parent("sec", <<Leaf("title", <<"O", "u", "t">>),
                                  Parent("sec", <<Leaf("p", <<"x">>)>>),
                                  Leaf("p", <<"x">>)>>),
                  Leaf("label", <<"L">>),
                  Leaf("p", <<>>)>>)
    /\ jats_paragraphs.value = << <<(<<>>), <<"x">> >>,
                                  <<(<<"O", "u", "t">>), <<"x">> >> >>

\* The tree without its sections titled 'Author contributions', at any depth.
RECURSIVE WithoutSkipped(_)
WithoutSkipped(e) ==
    LET kept == SelectSeq(e.children,
                          LAMBDA c : ~(c.tag = "sec"
                                       /\ ElementToStr(Find(c, "title"))
                                              = AuthorContributions))
    IN  Node(e.tag, e.text, [i \in 1..Len(kept) |-> WithoutSkipped(kept[i])],
             e.tail)

\* C14: the pairs of the body are those of the document with every section
\* titled 'Author contributions' taken out with all it contains, whatever
\* its depth: nothing of such a section is yielded, and what stands before
\* and after it is walked as without it.
C14_AuthorContributionsSkipped ==
    JatsParagraphsRead =>
        /\ BodyPairsAre(Walk(WithoutSkipped(body), FALSE))
        /\ \A i \in 1..Len(jats_paragraphs.value) :
              jats_paragraphs.value[i][1] # AuthorContributions

\* Between two sections 'Out', a section 'Author contributions' with a
\* paragraph and a nested section 'In'.
C14_Witness ==
    /\ JatsParagraphsRead
    /\ body = Parent("body",
                <<Parent("sec", <<Leaf("title", <<"O", "u", "t">>),
                                  Leaf("p", <<"x">>)>>),
                  Parent("sec", <<Leaf("title", AuthorContributions),
                                  Parent("sec", <<Leaf("title", <<"I", "n">>),
                                                  Leaf("p", <<"x">>)>>),
                                  Leaf("p", <<"x">>)>>),
                  Parent("sec", <<Leaf("title", <<"O", "u", "t">>),
                                  Leaf("p", <<"x">>)>>)>>)
    /\ jats_paragraphs.value = << <<(<<"O", "u", "t">>), <<"x">> >>,
                                  <<(<<"O", "u", "t">>), <<"x">> >> >>

\* 0 for a pair of the body, 1 for a figure caption, 2 for a table caption.
Rank(entry) ==
    IF entry[1] = F_Caption THEN 1 ELSE IF entry[1] = T_Caption THEN 2 ELSE 0

\* The texts of the entries with the label, in order.
TextsLabelled(label) ==
    LET es == SelectSeq(jats_paragraphs.value, LAMBDA en : en[1] = label)
    IN  [i \in 1..Len(es) |-> es[i][2]]

\* The elements of s that are not empty.
NonEmpty(s) == SelectSeq(s, LAMBDA x : x # <<>>)

\* The caption of a table-wrap as C15 states it: from the caption/p
\* children, from the caption/title children only when there is no caption/p.
ClaimedTableCaption(table) ==
    LET captions == FindAll(table, "caption")
        ps == Concat([i \in 1..Len(captions) |-> FindAll(captions[i], "p")])
        titles == Concat([i \in 1..Len(captions) |->
                             FindAll(captions[i], "title")])
        chosen == IF ps = <<>> THEN titles ELSE ps
    IN  Join([i \in 1..Len(chosen) |-> ElementToStr(chosen[i])], <<" ">>)

\* C15: body pairs come before figure captions and these before table
\* captions; the figure captions are those of the fig elements under the
\* body that have one, in document order, one entry each at most, and
\* likewise the table captions, built from caption/p and from caption/title
\* only when there is no caption/p.
C15_CaptionsAppendedLast ==
    JatsParagraphsRead =>
        LET figs == Descendants(body, "fig")
            tables == Descendants(body, "table-wrap")
        IN  /\ \A i, j \in 1..Len(jats_paragraphs.value) :
                  i < j => Rank(jats_paragraphs.value[i])
                               <= Rank(jats_paragraphs.value[j])
            /\ Len(TextsLabelled(F_Caption)) <= Len(figs)
            /\ Len(TextsLabelled(T_Caption)) <= Len(tables)
            /\ TextsLabelled(F_Caption)
                 = NonEmpty([i \in 1..Len(figs) |->
                               Join([k \in 1..Len(FindAll(figs[i], "caption"))
                                        |-> ElementToStr(
                                              FindAll(figs[i], "caption")[k])],
                                    <<" ">>)])
            /\ TextsLabelled(T_Caption)
                 = NonEmpty([i \in 1..Len(tables) |->
                               ClaimedTableCaption(tables[i])])

\* A figure and a table stand before the paragraph and come after it.
C15_Witness ==
    /\ JatsParagraphsRead
    /\ body = Parent("body",
                <<Parent("fig", <<Leaf("caption", <<"c">>),
                                  Leaf("caption", <<"d">>)>>),
                  Parent("table-wrap",
                         <<Parent("caption", <<Leaf("title", <<"T">>)>>)>>),
                  Leaf("p", <<"y">>)>>)
    /\ jats_paragraphs.value = << <<(<<>>), <<"y">> >>,
                                  <<F_Caption, <<"c", " ", "d">> >>,
                                  <<T_Caption, <<"T">> >> >>

\* C16: no 'Figure Caption' or 'Table Caption' entry has a text that is
\* empty or made of whitespace only.
C16_NoBlankCaption ==
    JatsParagraphsRead =>
        \A i \in 1..Len(jats_paragraphs.value) :
            jats_paragraphs.value[i][1] \in CaptionLabels
                => Strip(jats_paragraphs.value[i][2]) # <<>>

----------------------------------------------------------------------------
(* Claims on PDFParser.paragraphs *)

\* The tokens of all the paragraphs read, in order.
TokensRead ==
    Concat([k \in 1..Len(pdf_paragraphs.value) |->
               Split(pdf_paragraphs.value[k][2])])

\* C17: for n >= 1 tokens and chunk_size c >= 1, with c' = min(n, c), the
\* read succeeds with floor(n / c') entries; entry i is 'Article Chunk' with
\* the tokens i*c' .. (i+1)*c' - 1 joined by single spaces, so each holds c'
\* tokens and the last n mod c' tokens are in none.  'Hello world!' gives
\* one entry for c = 2 and the entries 'Hello', 'world!' for c = 1.
C17_PdfChunks ==
    LET tokens == Split(pdf_text)
        n == Len(tokens)
        c == IF n <= chunk_size THEN n ELSE chunk_size
    IN  (pdf_paragraphs.exc # "unread" /\ n >= 1 /\ chunk_size >= 1) =>
            /\ pdf_paragraphs.exc = "none"
            /\ Len(pdf_paragraphs.value) = n \div c
            /\ \A i \in 0..(Len(pdf_paragraphs.value) - 1) :
                  /\ pdf_paragraphs.value[i + 1][1] = S_ArticleChunk
                  /\ pdf_paragraphs.value[i + 1][2]
                       = Join([j \in 1..c |-> tokens[i * c + j]], <<" ">>)
                  /\ Len(Split(pdf_paragraphs.value[i + 1][2])) = c
            /\ TokensRead = SubSeq(tokens, 1, n - (n % c))
            /\ (pdf_text = S_HelloWorld /\ chunk_size = 2) =>
                  pdf_paragraphs.value = << <<S_ArticleChunk, S_HelloWorld>> >>
            /\ (pdf_text = S_HelloWorld /\ chunk_size = 1) =>
                  pdf_paragraphs.value
                    = << <<S_ArticleChunk, <<"H", "e", "l", "l", "o">> >>,
                         <<S_ArticleChunk, <<"w", "o", "r", "l", "d", "!">> >> >>

\* Three tokens in chunks of two: one paragraph, the third token is lost.
C17_Witness ==
    /\ pdf_text = <<"a", " ", "b", " ", "a">>
    /\ chunk_size = 2
    /\ pdf_paragraphs.exc = "none"
    /\ pdf_paragraphs.value = << <<S_ArticleChunk, <<"a", " ", "b">> >> >>

\* The extracted text has zero tokens: it is empty or all whitespace.
NoTokens == Split(pdf_text) = <<>>

PdfParagraphsRead == pdf_paragraphs.exc # "unread"

PdfArticleParsed == pdf_article.exc # "unparsed"

\* The read of paragraphs failed on the division, and so did Article.parse.
DivisionFails ==
    /\ PdfParagraphsRead => pdf_paragraphs.exc = "ZeroDivisionError"
    /\ PdfArticleParsed => pdf_article.exc = "ZeroDivisionError"

\* C29 as stated: for a text with zero tokens the read of paragraphs fails
\* with a division by zero for every chunk_size, and Article.parse yields
\* no record.
C29_NoTokensAlwaysFails == NoTokens => DivisionFails

\* C29: for a text with zero tokens and a chunk_size >= 0, reading
\* paragraphs fails with a division by zero and Article.parse yields no
\* record; for a negative chunk_size the read returns the empty list and
\* Article.parse yields a record with an empty title, no authors, no abstract
\* and no paragraphs.
C29_NoTokensFailsUnlessNegative ==
    NoTokens =>
        /\ chunk_size >= 0 => DivisionFails
        /\ chunk_size < 0 =>
              /\ PdfParagraphsRead =>
                    /\ pdf_paragraphs.exc = "none"
                    /\ pdf_paragraphs.value = <<>>
              /\ PdfArticleParsed =>
                    /\ pdf_article.exc = "none"
                    /\ pdf_article.value.title = <<>>
                    /\ pdf_article.value.authors = <<>>
                    /\ pdf_article.value.abstract = <<>>
                    /\ pdf_article.value.section_paragraphs = <<>>

\* An all-whitespace text with a positive chunk_size: the read and
\* Article.parse both failed on the division.
C29_Witness ==
    /\ pdf_text = <<" ", " ">>
    /\ chunk_size = 2
    /\ pdf_paragraphs.exc = "ZeroDivisionError"
    /\ pdf_article.exc = "ZeroDivisionError"

----------------------------------------------------------------------------
(* Claims on XOCSXMLParser *)

\* A parser of type "full" whose paragraphs were read.
FullParagraphsRead == xocs.exc = "none" /\ xocs.type = "full"
                      /\ xocs_paragraphs.exc # "unread"

\* The serial-item, the body and the floats of the document of the parser,
\* and the marker of a kind under the serial-item.
SerialItemOfDocument ==
    First(FindAllPath(xocs.content,
        <<QName("default", "originalText", FullNamespace),
          QName("xocs", "doc", FullNamespace),
          QName("xocs", "serial-item", FullNamespace)>>))
BodyOfDocument ==
    First(Descendants(xocs.content, QName("ja", "body", FullNamespace)))
FloatsOfDocument == Floats(xocs.content, FullNamespace)
MarkerOfKind(kind) ==
    First(FindAll(SerialItemOfDocument, QName("ja", kind, FullNamespace)))

\* The titles of the entries that come before those of the floats.
BodyEntryTitles ==
    [k \in 1..(Len(xocs_paragraphs.value) - Len(FloatsOfDocument)) |->
        xocs_paragraphs.value[k][1]]

\* For each section of the document in order, and each of its paragraphs,
\* the stripped text of the section-title of the section.
SectionTitlePerParagraph ==
    LET sections == Descendants(xocs.content,
                                QName("ce", "section", FullNamespace))
    IN  Concat([i \in 1..Len(sections) |->
                   [j \in 1..Len(FindAll(sections[i],
                                   QName("ce", "para", FullNamespace))) |->
                       StripText(IterText(First(FindAll(sections[i],
                           QName("ce", "section-title", FullNamespace)))))]])

\* What the read gives when the marker of a kind is the one dispatched on.
DispatchedAs(kind) ==
    CASE kind = "simple-article" ->
            /\ xocs_paragraphs.exc \in {"none", "AttributeError"}
            /\ xocs_paragraphs.exc = "none"
                   => BodyEntryTitles
                          = [k \in 1..Len(BodyEntryTitles) |-> <<>>]
      [] kind = "article" ->
            /\ xocs_paragraphs.exc \in {"none", "AttributeError"}
            /\ xocs_paragraphs.exc = "none"
                   => BodyEntryTitles = SectionTitlePerParagraph
      [] kind = "converted-article" ->
            xocs_paragraphs.exc = "NotImplementedError"
      [] OTHER -> xocs_paragraphs.exc = "ValueError"

\* The first kind, in the order simple-article, article,
\* converted-article, whose marker satisfies Counts; "none" without one.
FirstKind(Counts(_)) ==
    IF Counts(MarkerOfKind("simple-article")) THEN "simple-article"
    ELSE IF Counts(MarkerOfKind("article")) THEN "article"
    ELSE IF Counts(MarkerOfKind("converted-article")) THEN "converted-article"
    ELSE "none"

IsFound(e) == e # Missing
HasSubElements(e) == e # Missing /\ Len(e.children) > 0

LocalName(tag) ==
    IF tag # <<>> /\ Head(tag) = "{" /\ \E k \in 1..Len(tag) : tag[k] = "}"
    THEN SubSeq(tag, (CHOOSE k \in 1..Len(tag) : tag[k] = "}") + 1, Len(tag))
    ELSE tag

\* The constructor has run, and what it gave.
XocsConstructed == xocs.exc # "unconstructed"
IsFullParser ==
    xocs.exc = "none" /\ xocs.type = "full" /\ xocs.namespace = FullNamespace
IsAbstractParser ==
    /\ xocs.exc = "none" /\ xocs.type = "abstract"
    /\ xocs.namespace = AbstractNamespace

\* The outcome of the construction when the root tag is judged by Is.
ConstructedBy(Is(_, _)) ==
    XocsConstructed
        => IF Is(xocs_data.tag, S_FullTextRetrievalResponse)
           THEN IsFullParser
           ELSE IF Is(xocs_data.tag, S_AbstractsRetrievalResponse)
           THEN IsAbstractParser
           ELSE xocs.exc = "ValueError"

IsNamed(tag, name) == LocalName(tag) = name
Holds(tag, name) ==
    \E k \in 0..(Len(tag) - Len(name)) :
        \A j \in 1..Len(name) : tag[k + j] = name[j]

\* No step changes the type or the namespace map of a constructed parser.
TypeAndNamespaceKept ==
    [][xocs.exc = "none"
          => xocs'.type = xocs.type /\ xocs'.namespace = xocs.namespace]_vars

\* A parser of type "abstract" gives an empty list of paragraphs.
AbstractHasNoParagraphs ==
    (xocs.exc = "none" /\ xocs.type = "abstract"
     /\ xocs_paragraphs.exc # "unread")
        => xocs_paragraphs.exc = "none" /\ xocs_paragraphs.value = <<>>

\* C19 as stated: construction gives type "full" with the full-text
\* namespace map when the name of the root tag is
\* full-text-retrieval-response, type "abstract" with the abstract
\* namespace map when it is abstracts-retrieval-response, and ValueError for
\* every other root tag; no property read changes type or namespace; a
\* parser of type "abstract" returns an empty paragraphs list.
C19_TypeOfRootTagName ==
    /\ [](ConstructedBy(IsNamed) /\ AbstractHasNoParagraphs)
    /\ TypeAndNamespaceKept

\* C19, amended: the root tag is searched, not compared: type "full" when
\* the tag holds full-text-retrieval-response anywhere, else type
\* "abstract" when it holds abstracts-retrieval-response anywhere, and
\* ValueError only for a tag that holds neither; no property read changes
\* type or namespace; a parser of type "abstract" returns an empty
\* paragraphs list.
C19_TypeOfRootTag ==
    /\ [](ConstructedBy(Holds) /\ AbstractHasNoParagraphs)
    /\ TypeAndNamespaceKept

\* An abstract parser, built on a document that has sections with
\* paragraphs, was read: article_type and then paragraphs, which are empty.
C19_Witness ==
    /\ IsAbstractParser
    /\ IsNamed(xocs_data.tag, S_AbstractsRetrievalResponse)
    /\ Descendants(xocs.content, QName("ce", "para", FullNamespace)) # <<>>
    /\ xocs_article_type.exc # "unread"
    /\ xocs_paragraphs.exc = "none"
    /\ xocs_paragraphs.value = <<>>

----------------------------------------------------------------------------
(* Claims on JATSXMLParser.from_zip *)

\* The positions of the members whose name starts with content/ and ends
\* with .xml.
CountedMembers ==
    {i \in 1..Len(myzip) :
        /\ Len(myzip[i].name) >= 8
        /\ SubSeq(myzip[i].name, 1, 8) = S_ContentSlash
        /\ Len(myzip[i].name) >= 4
        /\ SubSeq(myzip[i].name, Len(myzip[i].name) - 3, Len(myzip[i].name))
               = S_DotXml}

FromZipCalled == zip_parser.exc # "uncalled"

\* With zero or with two or more counted members the call raises
\* ValueError and has opened no member.
ValueErrorBeforeAnyParse ==
    (FromZipCalled /\ Cardinality(CountedMembers) # 1)
        => zip_parser.exc = "ValueError" /\ zip_opened = <<>>

----------------------------------------------------------------------------
(* Claims on /parse/grobidpdf *)

Responded == grobid_response # NoResponse

\* The url the conversion is called with, and the ways the conversion call
\* fails: no url, no connection, an HTTP error status.
UrlOfRequest ==
    IF grobid_request.data.present /\ grobid_request.data.url # "absent"
    THEN grobid_request.data.url ELSE grobid_request.settings_url
ConversionFails ==
    UrlOfRequest = "None" \/ grobid_request.server # "200"

\* The ways the parsing of the returned TEI XML fails.
TeiParsingFails ==
    /\ grobid_request.tei.well_formed
    /\ \/ ~grobid_request.tei.has_title
       \/ \E i \in 1..Len(grobid_request.tei.named_authors) :
              ~grobid_request.tei.named_authors[i]
       \/ grobid_request.tei.unexpected_tag

\* C22: a failure of the conversion call (no url, connection error, HTTP
\* error status) gives the service-unavailable response (code 1, "Grobid
\* server is not available."), and a failure of parsing the returned TEI
\* XML (missing title, missing author name, unexpected tag) never gives it.
C22_ServiceUnavailableIffConversionFails ==
    Responded =>
        /\ ConversionFails => grobid_response = ServiceUnavailable
        /\ (~ConversionFails /\ TeiParsingFails)
               => grobid_response # ServiceUnavailable

----------------------------------------------------------------------------
(* Claims on the property title *)

TitleWasRead == title_read.exc # "unread"

\* C23: for each XML dialect (JATS, PubMed, TEI, XOCS), reading title from
\* a document without the title element fails with ValueError and returns
\* no string, empty or not; only the PDF parser returns an empty title.
C23_MissingTitleRaisesValueError ==
    TitleWasRead =>
        /\ (title_parser.variant \in {"JATS", "PubMed", "TEI", "XOCS"}
            /\ title_parser.title = NoElement)
               => title_read.exc = "ValueError"
        /\ title_parser.variant = "PDF"
               => title_read.exc = "none" /\ title_read.value = <<>>

----------------------------------------------------------------------------
(* Claims on TEIXMLParser.tei_ids *)

SingleThread == Cardinality(tei_threads) = 1

\* The idno entries of the document: per type, the text of its last idno.
DocumentMap ==
    {tei_idnos[i] : i \in {k \in 1..Len(tei_idnos) :
        \A j \in (k + 1)..Len(tei_idnos) : tei_idnos[j][1] # tei_idnos[k][1]}}

\* Every read so far was handed the same dict object with the same entries.
SameMapHanded ==
    \A i, j \in 1..Len(tei_handed) :
        /\ tei_handed[i].dict = tei_handed[j].dict
        /\ tei_handed[i].entries = tei_handed[j].entries

\* The map is built at most once, and before the first read returns.
BuiltAtMostOnce ==
    /\ Len(tei_dicts) <= 1
    /\ Len(tei_handed) > 0 => Len(tei_dicts) = 1 /\ tei_ids = 1

\* Once a read has returned, no step builds, resets or changes the map.
StoredMapKept ==
    Len(tei_handed) > 0 => UNCHANGED <<tei_ids, tei_dicts>>

\* Reading title, authors, abstract, paragraphs, date or journal leaves
\* the map alone.
OtherReadsKeepMap ==
    (\E t \in tei_threads : ReadOtherProperty(t)) =>
        UNCHANGED <<tei_ids, tei_dicts>>

\* C24: with a single thread, over any sequence of reads of tei_ids,
\* arxiv_id, doi and uid the identifier map is built at most once, during
\* the first such read; every later read returns the same stored map with
\* the same entries, and a read of another property neither builds nor
\* resets it.
C24_BuiltOnceThenKept ==
    /\ [](SingleThread => BuiltAtMostOnce /\ SameMapHanded)
    /\ [][SingleThread => StoredMapKept /\ OtherReadsKeepMap]_vars

\* A single thread has read uid and one more identifier, then another
\* property, of a document with idno elements.
C24_Witness ==
    /\ SingleThread
    /\ tei_idnos # <<>>
    /\ Len(tei_handed) = 3
    /\ tei_op[1] = "title"
    /\ tei_reads = 3

\* A read was handed a map that lacks an idno entry of the document.
HandedIncomplete(h) == \E e \in DocumentMap : e \notin h.entries

\* C30: the map stored in _tei_ids is empty before it is filled, so with
\* two threads a read can be handed a map that still misses idno entries of
\* the document; with a single accessing thread every map handed out has
\* all the entries of the document.
C30_CompleteWhenSingleThread ==
    SingleThread =>
        \A i \in 1..Len(tei_handed) : tei_handed[i].entries = DocumentMap

\* Two threads: one is still in its loop, the other was handed the map the
\* first one stored, with an entry missing.
C30_Witness ==
    /\ tei_threads = {1, 2}
    /\ Len(tei_dicts) = 1
    /\ \E t \in tei_threads :
          /\ tei_pc[t] = "loop"
          /\ \E i \in 1..Len(tei_handed) :
                /\ tei_handed[i].thread # t
                /\ tei_handed[i].dict = tei_ids
                /\ HandedIncomplete(tei_handed[i])

----------------------------------------------------------------------------
(* Claims on TEIXMLParser.abstract *)

TeiAbstractRead == tei_abstract_read.exc # "unread"

\* The div children and the top-level p children of the abstract, in order.
DivsOfAbstract ==
    SelectSeq(tei_abstract, LAMBDA c : c.tag = "div")

TopLevelParagraphs ==
    SelectSeq(tei_abstract, LAMBDA c : c.tag = "p")

\* The non-head children of all the divs, in order, each with its tag and
\* its flattened text.
NonHeadChildren ==
    Concat([k \in 1..Len(DivsOfAbstract) |->
               [j \in 1..Len(SelectSeq(DivsOfAbstract[k].children,
                                       LAMBDA c : c.tag # "head")) |->
                   Element(SelectSeq(DivsOfAbstract[k].children,
                                     LAMBDA c : c.tag # "head")[j].tag,
                           IterText(SelectSeq(DivsOfAbstract[k].children,
                                              LAMBDA c : c.tag # "head")[j]))]])

AllTagsExpected ==
    \A k \in 1..Len(NonHeadChildren) :
        NonHeadChildren[k].tag \in {"p", "formula", "note", "ref", "figure"}

\* C25: abstract takes the per-div path whenever the abstract has a div
\* child: the non-head children of all the divs, in order, are stitched by
\* _build_texts into one stream; only without a div it returns one entry per
\* top-level p, in order, each the flattened text of that p, neither
\* stitched nor stripped nor ended with a period.
C25_PerDivElseFallback ==
    TeiAbstractRead =>
        /\ (DivsOfAbstract # <<>> /\ AllTagsExpected) =>
              /\ tei_abstract_read.exc = "none"
              /\ tei_abstract_read.value
                   = FoldTexts(NonHeadChildren, <<>>, <<>>, AsciiUppercase)
        /\ DivsOfAbstract = <<>> =>
              /\ tei_abstract_read.exc = "none"
              /\ tei_abstract_read.value
                   = [k \in 1..Len(TopLevelParagraphs) |->
                         IterText(TopLevelParagraphs[k])]

\* Two top-level paragraphs and no div: two entries, the first without a
\* period, the second starting with a space and holding the text of its ref.
C25_Witness ==
    /\ Len(tei_abstract) = 2
    /\ DivsOfAbstract = <<>>
    /\ tei_abstract_read.exc = "none"
    /\ tei_abstract_read.value
         = << <<"A", "b">>, <<" ", "s", "e", "e", "1", " ", "x">> >>

\* Two divs and a top-level paragraph: the children of both divs make one
\* text, the top-level paragraph is left out.
PerDivPathReached ==
    /\ Len(tei_abstract) = 3
    /\ Len(DivsOfAbstract) = 2
    /\ tei_abstract_read.exc = "none"
    /\ tei_abstract_read.value
         = << T_Hello \o <<" ">> \o T_thereDot
                \o <<" ", "F", "O", "R", "M", "U", "L", "A", ".">> >>

====
